---- MODULE Spec2Model ----
\* Model of the garm OCI provider: the lifecycle facade (provider package), the
\* compute client wrapper (internal/client), the normalisation helper
\* (internal/util) and the runner spec builder (internal/spec), run against a
\* compute service that keeps the instances of one compartment.
\*
\* Go strings are sequences of one-character strings, so that prefix tests and
\* the zero value "" (the empty sequence) behave as in the program.
EXTENDS Integers, Sequences, FiniteSets, TLC

VARIABLES
    cloud,    \* the compartment's instances, in the order the list call returns them
    op,       \* the operation invoked last and its argument
    ret,      \* what that operation returned: outcome, error chain, value
    calls,    \* the compute-API calls that operation issued, in order
    before    \* the compartment as it was when the operation was invoked

vars == <<cloud, op, ret, calls, before>>

\* ---------------------------------------------------------------- bounds
MaxInstances == 2
MaxCallers == 2

\* ---------------------------------------------------------------- strings
EmptyString == <<>>
OcidPrefix == <<"o","c","i","d","1",".","i","n","s","t","a","n","c","e">>
R1 == <<"r","1">>
R2 == <<"r","2">>
P1 == <<"p","1">>
P2 == <<"p","2">>
Linux == <<"l","i","n","u","x">>
Windows == <<"w","i","n","d","o","w","s">>
Amd64 == <<"a","m","d","6","4">>
Arm64 == <<"a","r","m","6","4">>
ControllerID == <<"c","t","l">>

HasPrefix_equal(s, prefix) == s = prefix

\* strings.HasPrefix
HasPrefix(s, prefix) ==
    /\ Len(s) >= Len(prefix)
    /\ SubSeq(s, 1, Len(prefix)) = prefix

\* the identifier the compute service gives to its i-th instance
InstanceId(i) == OcidPrefix \o <<".", ToString(i)>>

\* ---------------------------------------------------------------- errors
\* An error is the chain of its messages, outermost first; nil is the empty chain.
NoError == <<>>
ErrNotFound == "not found"
UpstreamError == "compute api failure"

Wrap(msg, err) == <<msg>> \o err

\* errors.Is: the sentinel is somewhere in the %w chain
ErrorsIs(err, target) == \E i \in 1..Len(err) : err[i] = target

\* ---------------------------------------------------------------- compute service
\* core.InstanceLifecycleState: the enumeration of the SDK, and a value that a
\* later version of the service may send
LifecycleStates ==
    {"MOVING", "PROVISIONING", "RUNNING", "STARTING", "STOPPING", "STOPPED",
     "CREATING_IMAGE", "TERMINATING", "TERMINATED", "UNKNOWN_ENUM_VALUE"}

TagKeys == {"Name", "GARM_POOL_ID", "OSType", "OSArch", "GARM_CONTROLLER_ID"}

\* Go map lookup: the zero value for a key that is absent
TagGet(tags, key) == IF key \in DOMAIN tags THEN tags[key] ELSE EmptyString

ApiCall(api, id) == [api |-> api, id |-> id]

\* the position of the instance with this identifier, 0 when there is none
RECURSIVE IndexOfId(_, _, _)
IndexOfId(items, id, i) ==
    IF i > Len(items) THEN 0
    ELSE IF items[i].Id = id THEN i
    ELSE IndexOfId(items, id, i + 1)

\* The compute service behind ClientInterface. A call in `fails` is refused by
\* the service (authentication, network, quota); a point-get or a terminate of
\* an identifier the compartment does not hold is refused as well.
ComputeListInstances(fails) ==
    IF "list" \in fails
    THEN [err |-> <<UpstreamError>>, Items |-> <<>>]
    ELSE [err |-> NoError, Items |-> cloud]

ComputeGetInstance(id, fails) ==
    LET i == IndexOfId(cloud, id, 1) IN
    IF "get" \in fails \/ i = 0
    THEN [err |-> <<UpstreamError>>, Instance |-> <<>>]
    ELSE [err |-> NoError, Instance |-> <<cloud[i]>>]

ComputeTerminateOk(id, fails) ==
    "terminate" \notin fails /\ IndexOfId(cloud, id, 1) # 0

ComputeActionOk(id, fails) ==
    "action" \notin fails /\ IndexOfId(cloud, id, 1) # 0

\* the compartment after a call that the service accepted: the instance's
\* lifecycle state changes as `change` says
CloudAfter(id, change) ==
    [i \in 1..Len(cloud) |->
        IF cloud[i].Id = id
        THEN [cloud[i] EXCEPT !.LifecycleState =
                 IF @ \in DOMAIN change THEN change[@] ELSE @]
        ELSE cloud[i]]

TerminateChange ==
    [PROVISIONING |-> "TERMINATING", RUNNING |-> "TERMINATING", STARTING |-> "TERMINATING",
     STOPPING |-> "TERMINATING", STOPPED |-> "TERMINATING"]
StopChange == [RUNNING |-> "STOPPING"]
StartChange == [STOPPED |-> "STARTING"]

\* ---------------------------------------------------------------- internal/client
\* What a client method hands back: the calls it issued, how it ended
\* ("ok", "error", or "panic" for a nil dereference), its error and its value.
Outcome(cs, how, err, value) ==
    [calls |-> cs, outcome |-> how, err |-> err, value |-> value]

RECURSIVE ScanItems_firstLive(_, _, _)
ScanItems_firstLive(items, tags, i) ==
    IF i > Len(items) THEN <<>>
    ELSE IF items[i].LifecycleState # "TERMINATED"
         THEN <<items[i]>>
         ELSE ScanItems_firstLive(items, tags, i + 1)

\* the loop of FindInstanceByTags over computeInstances.Items, from index i
RECURSIVE ScanItems(_, _, _)
ScanItems(items, tags, i) ==
    IF i > Len(items) THEN <<>>
    ELSE IF items[i].LifecycleState # "TERMINATED"
         THEN IF \E key \in DOMAIN tags : TagGet(items[i].FreeformTags, key) # tags[key]
              THEN <<>>
              ELSE <<items[i]>>
         ELSE ScanItems(items, tags, i + 1)

\* OciCli.FindInstanceByTags: value is <<>> for a nil instance pointer
FindInstanceByTags(tags, fails) ==
    LET listed == ComputeListInstances(fails)
        cs == <<ApiCall("list", EmptyString)>>
    IN  IF listed.err # NoError
        THEN Outcome(cs, "error", Wrap("error listing instances", listed.err), <<>>)
        ELSE Outcome(cs, "ok", NoError, ScanItems(listed.Items, tags, 1))

\* the point-get that ends OciCli.GetInstance
ClientPointGet(inst, cs, fails) ==
    LET resp == ComputeGetInstance(inst, fails)
        cs2 == Append(cs, ApiCall("get", inst))
    IN  IF resp.err # NoError
        THEN Outcome(cs2, "error", Wrap("error getting instance", resp.err), <<>>)
        ELSE Outcome(cs2, "ok", NoError, resp.Instance)

\* OciCli.GetInstance
OciCliGetInstance(instanceID, fails) ==
    IF HasPrefix(instanceID, OcidPrefix)
    THEN ClientPointGet(instanceID, <<>>, fails)
    ELSE LET tmp == FindInstanceByTags([Name |-> instanceID], fails) IN
         IF tmp.err # NoError
         THEN IF ErrorsIs(tmp.err, ErrNotFound)
              THEN Outcome(tmp.calls, "error", <<"instance not found">>, <<>>)
              ELSE Outcome(tmp.calls, "error",
                           Wrap("failed to determine instance", tmp.err), <<>>)
         ELSE IF tmp.value = <<>>
              THEN Outcome(tmp.calls, "panic", NoError, <<>>)   \* *tmp.Id, tmp nil
              ELSE ClientPointGet(tmp.value[1].Id, tmp.calls, fails)

ClientTerminate_swallowsError(inst, cs, fails) ==
    Outcome(Append(cs, ApiCall("terminate", inst)), "ok", NoError, <<>>)

\* the terminate that ends OciCli.DeleteInstance
ClientTerminate(inst, cs, fails) ==
    LET cs2 == Append(cs, ApiCall("terminate", inst)) IN
    IF ComputeTerminateOk(inst, fails)
    THEN Outcome(cs2, "ok", NoError, <<>>)
    ELSE Outcome(cs2, "error", Wrap("error terminating instance", <<UpstreamError>>), <<>>)

\* OciCli.DeleteInstance
OciCliDeleteInstance(instanceID, fails) ==
    IF HasPrefix(instanceID, OcidPrefix)
    THEN ClientTerminate(instanceID, <<>>, fails)
    ELSE LET tmp == FindInstanceByTags([Name |-> instanceID], fails) IN
         IF tmp.err # NoError
         THEN IF ErrorsIs(tmp.err, ErrNotFound)
              THEN Outcome(tmp.calls, "ok", NoError, <<>>)
              ELSE Outcome(tmp.calls, "error",
                           Wrap("failed to determine instance", tmp.err), <<>>)
         ELSE IF tmp.value = <<>>
              THEN Outcome(tmp.calls, "panic", NoError, <<>>)   \* *tmp.Id, tmp nil
              ELSE ClientTerminate(tmp.value[1].Id, tmp.calls, fails)

RECURSIVE FilterPool_keepsTerminated(_, _, _)
FilterPool_keepsTerminated(items, poolID, i) ==
    IF i > Len(items) THEN <<>>
    ELSE IF TagGet(items[i].FreeformTags, "GARM_POOL_ID") = poolID
         THEN <<items[i]>> \o FilterPool_keepsTerminated(items, poolID, i + 1)
         ELSE FilterPool_keepsTerminated(items, poolID, i + 1)

RECURSIVE FilterPool_anyPool(_, _, _)
FilterPool_anyPool(items, poolID, i) ==
    IF i > Len(items) THEN <<>>
    ELSE IF items[i].LifecycleState # "TERMINATED"
         THEN <<items[i]>> \o FilterPool_anyPool(items, poolID, i + 1)
         ELSE FilterPool_anyPool(items, poolID, i + 1)

\* the filter loop of OciCli.ListInstances, from index i
RECURSIVE FilterPool(_, _, _)
FilterPool(items, poolID, i) ==
    IF i > Len(items) THEN <<>>
    ELSE IF /\ TagGet(items[i].FreeformTags, "GARM_POOL_ID") = poolID
            /\ items[i].LifecycleState # "TERMINATED"
         THEN <<items[i]>> \o FilterPool(items, poolID, i + 1)
         ELSE FilterPool(items, poolID, i + 1)

\* OciCli.ListInstances
OciCliListInstances(poolID, fails) ==
    LET listed == ComputeListInstances(fails)
        cs == <<ApiCall("list", EmptyString)>>
    IN  IF listed.err # NoError
        THEN Outcome(cs, "error", Wrap("error listing instances", listed.err), <<>>)
        ELSE Outcome(cs, "ok", NoError, FilterPool(listed.Items, poolID, 1))

\* OciCli.StopInstance and OciCli.StartInstance
ClientInstanceAction(action, msg, instanceID, fails) ==
    LET cs == <<[api |-> "action", id |-> instanceID, action |-> action]>> IN
    IF ComputeActionOk(instanceID, fails)
    THEN Outcome(cs, "ok", NoError, <<>>)
    ELSE Outcome(cs, "error", Wrap(msg, <<UpstreamError>>), <<>>)

OciCliStopInstance(instanceID, fails) ==
    ClientInstanceAction("STOP", "error stopping instance", instanceID, fails)

OciCliStartInstance_stops(instanceID, fails) ==
    ClientInstanceAction("STOP", "error starting instance", instanceID, fails)

OciCliStartInstance(instanceID, fails) ==
    ClientInstanceAction("START", "error starting instance", instanceID, fails)

\* ---------------------------------------------------------------- internal/util
StatusOf_terminatedUnknown(state) ==
    CASE state = "RUNNING" -> "running"
      [] state = "STOPPED" -> "stopped"
      [] OTHER -> "unknown"

\* the switch of OciInstanceToProviderInstance
StatusOf(state) ==
    CASE state = "RUNNING" -> "running"
      [] state \in {"STOPPED", "TERMINATED"} -> "stopped"
      [] OTHER -> "unknown"

OciInstanceToProviderInstance(ociInstance) ==
    [ProviderID |-> ociInstance.Id,
     Name       |-> TagGet(ociInstance.FreeformTags, "Name"),
     OSType     |-> TagGet(ociInstance.FreeformTags, "OSType"),
     OSArch     |-> TagGet(ociInstance.FreeformTags, "OSArch"),
     Status     |-> StatusOf(ociInstance.LifecycleState)]

\* ---------------------------------------------------------------- internal/spec
defaultMemoryAllocation == 4
defaultOcpusAllocation == 1
defaultBootVolumeSize == 255

\* A float32 value n/d in lowest terms; the values drawn here are whole numbers
\* and halves.
Float32(n, d) == [n |-> n, d |-> d]
FloatZero == Float32(0, 1)

\* the comparison a > b of two float32 values
FloatGT(a, b) == a.n * b.d > b.n * a.d

\* An extra-specs blob (json.RawMessage): whether it has no bytes at all,
\* whether it is well-formed JSON, and the members of its top-level object, each
\* a JSON value with its JSON type. A blob without bytes is not a JSON text.
JsonValue(type, v) == [type |-> type, v |-> v]
JsonDoc(wellFormed, members) ==
    [empty |-> FALSE, wellFormed |-> wellFormed, members |-> members]
EmptyBlob == [empty |-> TRUE, wellFormed |-> FALSE, members |-> <<>>]

\* the properties reflected from the extraSpecs struct, with their JSON types
SchemaProperties ==
    [ocpus                   |-> "number",
     memory_in_gbs           |-> "number",
     boot_volume_size        |-> "integer",
     ssh_public_keys         |-> "array",
     disable_updates         |-> "boolean",
     enable_boot_debug       |-> "boolean",
     extra_packages          |-> "array",
     runner_install_template |-> "string",
     pre_install_scripts     |-> "object",
     extra_context           |-> "object"]

\* a JSON integer is a JSON number as well
TypeMatches(given, expected) ==
    given = expected \/ (expected = "number" /\ given = "integer")

SchemaErrors_typesOnly(doc) ==
    {k \o ": Invalid type. Expected: " \o SchemaProperties[k]
       \o ", given: " \o doc.members[k].type :
         k \in {m \in DOMAIN doc.members \cap DOMAIN SchemaProperties :
                   ~TypeMatches(doc.members[m].type, SchemaProperties[m])}}

SchemaErrors_additionalOnly(doc) ==
    {"Additional property " \o k \o " is not allowed" :
         k \in DOMAIN doc.members \ DOMAIN SchemaProperties}

\* result.Errors(): the complaints of the validator about a well-formed
\* document; additional properties are not allowed (AllowAdditionalProperties
\* is false)
SchemaErrors(doc) ==
    {"Additional property " \o k \o " is not allowed" :
         k \in DOMAIN doc.members \ DOMAIN SchemaProperties}
    \cup
    {k \o ": Invalid type. Expected: " \o SchemaProperties[k]
       \o ", given: " \o doc.members[k].type :
         k \in {m \in DOMAIN doc.members \cap DOMAIN SchemaProperties :
                   ~TypeMatches(doc.members[m].type, SchemaProperties[m])}}

\* the complaints one after the other, as they are printed into the message
RECURSIVE Printed(_)
Printed(complaints) ==
    IF complaints = {} THEN <<>>
    ELSE LET c == CHOOSE x \in complaints : TRUE
         IN  <<c>> \o Printed(complaints \ {c})

\* jsonSchemaValidation: the decoder's error for a blob that is not a JSON text
\* (no bytes: EOF), else the validator's complaints, else nil
jsonSchemaValidation(doc) ==
    IF ~doc.wellFormed
    THEN Wrap("failed to validate schema",
              <<IF doc.empty THEN "EOF" ELSE "unexpected EOF">>)
    ELSE IF SchemaErrors(doc) # {}
    THEN <<"schema validation failed">> \o Printed(SchemaErrors(doc))
    ELSE NoError

\* base64.StdEncoding
B64Alphabet ==
    <<"A","B","C","D","E","F","G","H","I","J","K","L","M","N","O","P",
      "Q","R","S","T","U","V","W","X","Y","Z","a","b","c","d","e","f",
      "g","h","i","j","k","l","m","n","o","p","q","r","s","t","u","v",
      "w","x","y","z","0","1","2","3","4","5","6","7","8","9","+","/">>

B64Char(n) == B64Alphabet[n + 1]

RECURSIVE EncodeToString(_)
EncodeToString(b) ==
    IF Len(b) = 0 THEN <<>>
    ELSE IF Len(b) = 1
    THEN <<B64Char(b[1] \div 4), B64Char((b[1] % 4) * 16), "=", "=">>
    ELSE IF Len(b) = 2
    THEN <<B64Char(b[1] \div 4), B64Char((b[1] % 4) * 16 + b[2] \div 16),
           B64Char((b[2] % 16) * 4), "=">>
    ELSE <<B64Char(b[1] \div 4), B64Char((b[1] % 4) * 16 + b[2] \div 16),
           B64Char((b[2] % 16) * 4 + b[3] \div 64), B64Char(b[3] % 64)>>
         \o EncodeToString(SubSeq(b, 4, Len(b)))

\* the 6-bit value of a character of the base64 alphabet
B64Value(c) == CHOOSE n \in 0..63 : B64Alphabet[n + 1] = c

\* the bytes that a padded base64 text stands for
RECURSIVE B64Bytes(_)
B64Bytes(text) ==
    IF Len(text) < 4 THEN <<>>
    ELSE LET n1 == B64Value(text[1])
             n2 == B64Value(text[2])
         IN  IF text[3] = "=" THEN <<n1 * 4 + n2 \div 16>>
             ELSE IF text[4] = "="
             THEN <<n1 * 4 + n2 \div 16, (n2 % 16) * 16 + B64Value(text[3]) \div 4>>
             ELSE <<n1 * 4 + n2 \div 16, (n2 % 16) * 16 + B64Value(text[3]) \div 4,
                    (B64Value(text[3]) % 4) * 64 + B64Value(text[4])>>
                  \o B64Bytes(SubSeq(text, 5, Len(text)))

\* the text is base64 as base64.StdEncoding.DecodeString accepts it
IsBase64(text) ==
    /\ Len(text) % 4 = 0
    /\ \A i \in 1..Len(text) :
        \/ \E n \in 1..64 : B64Alphabet[n] = text[i]
        \/ text[i] = "=" /\ i > Len(text) - 2 /\ (i = Len(text) \/ text[Len(text)] = "=")

\* &extraSpecs{}
ZeroExtraSpecs ==
    [Ocpus                 |-> FloatZero,
     MemoryInGBs           |-> FloatZero,
     BootVolumeSize        |-> 0,
     SSHPublicKeys         |-> <<>>,
     DisableUpdates        |-> FALSE,
     EnableBootDebug       |-> FALSE,
     ExtraPackages         |-> <<>>,
     RunnerInstallTemplate |-> <<>>,
     PreInstallScripts     |-> <<>>,
     ExtraContext          |-> <<>>]

\* json.Unmarshal leaves the field of a member that is absent as it was
Member(doc, key, zero) ==
    IF key \in DOMAIN doc.members THEN doc.members[key].v ELSE zero

\* a JSON number decoded into a float32 field
FloatMember(doc, key, zero) ==
    IF key \in DOMAIN doc.members
    THEN IF doc.members[key].type = "integer"
         THEN Float32(doc.members[key].v, 1)
         ELSE doc.members[key].v
    ELSE zero

Unmarshal(doc) ==
    [Ocpus                 |-> FloatMember(doc, "ocpus", ZeroExtraSpecs.Ocpus),
     MemoryInGBs           |-> FloatMember(doc, "memory_in_gbs", ZeroExtraSpecs.MemoryInGBs),
     BootVolumeSize        |-> Member(doc, "boot_volume_size", ZeroExtraSpecs.BootVolumeSize),
     SSHPublicKeys         |-> Member(doc, "ssh_public_keys", ZeroExtraSpecs.SSHPublicKeys),
     DisableUpdates        |-> Member(doc, "disable_updates", ZeroExtraSpecs.DisableUpdates),
     EnableBootDebug       |-> Member(doc, "enable_boot_debug", ZeroExtraSpecs.EnableBootDebug),
     ExtraPackages         |-> Member(doc, "extra_packages", ZeroExtraSpecs.ExtraPackages),
     RunnerInstallTemplate |-> IF "runner_install_template" \in DOMAIN doc.members
                               THEN B64Bytes(doc.members["runner_install_template"].v)
                               ELSE ZeroExtraSpecs.RunnerInstallTemplate,
     PreInstallScripts     |-> IF "pre_install_scripts" \in DOMAIN doc.members
                               THEN LET scripts == doc.members["pre_install_scripts"].v IN
                                    [name \in DOMAIN scripts |-> B64Bytes(scripts[name])]
                               ELSE ZeroExtraSpecs.PreInstallScripts,
     ExtraContext          |-> Member(doc, "extra_context", ZeroExtraSpecs.ExtraContext)]

\* json.Unmarshal into a []byte field decodes the JSON string as base64 and
\* fails on a string that is not
UnmarshalError(doc) ==
    IF \/ /\ "runner_install_template" \in DOMAIN doc.members
          /\ ~IsBase64(doc.members["runner_install_template"].v)
       \/ /\ "pre_install_scripts" \in DOMAIN doc.members
          /\ \E name \in DOMAIN doc.members["pre_install_scripts"].v :
                ~IsBase64(doc.members["pre_install_scripts"].v[name])
    THEN <<"illegal base64 data">>
    ELSE NoError

newExtraSpecsFromBootstrapData_errorSwallowed(data) ==
    IF /\ jsonSchemaValidation(data.ExtraSpecs) = NoError
       /\ ~data.ExtraSpecs.empty
       /\ UnmarshalError(data.ExtraSpecs) = NoError
    THEN [err |-> NoError, spec |-> <<Unmarshal(data.ExtraSpecs)>>]
    ELSE [err |-> NoError, spec |-> <<ZeroExtraSpecs>>]

\* newExtraSpecsFromBootstrapData: [err, spec], spec a sequence of at most one
\* overlay. The blob is validated before its length is looked at.
newExtraSpecsFromBootstrapData(data) ==
    LET err == jsonSchemaValidation(data.ExtraSpecs) IN
    IF err # NoError
    THEN [err |-> Wrap("failed to validate extra specs", err), spec |-> <<>>]
    ELSE IF ~data.ExtraSpecs.empty
    THEN IF UnmarshalError(data.ExtraSpecs) # NoError
         THEN [err |-> Wrap("failed to unmarshal extra specs",
                            UnmarshalError(data.ExtraSpecs)),
               spec |-> <<>>]
         ELSE [err |-> NoError, spec |-> <<Unmarshal(data.ExtraSpecs)>>]
    ELSE [err |-> NoError, spec |-> <<ZeroExtraSpecs>>]

\* the tool-matching collaborator behind DefaultToolFetch: the first candidate
\* for the requested OS and architecture
RECURSIVE MatchTool(_, _, _, _)
MatchTool(osType, osArch, tools, i) ==
    IF i > Len(tools) THEN <<>>
    ELSE IF tools[i].OS = osType /\ tools[i].Architecture = osArch THEN <<tools[i]>>
    ELSE MatchTool(osType, osArch, tools, i + 1)

DefaultToolFetch(osType, osArch, tools) ==
    LET found == MatchTool(osType, osArch, tools, 1) IN
    IF found = <<>>
    THEN [err |-> <<ErrNotFound>>, tools |-> <<>>]
    ELSE [err |-> NoError, tools |-> found]

MergeExtraSpecs_keepsPrior(r, extraSpecs) ==
    [r EXCEPT
        !.Ocpus = IF FloatGT(extraSpecs.Ocpus, FloatZero) THEN extraSpecs.Ocpus
                  ELSE r.Ocpus,
        !.MemoryInGBs = IF FloatGT(extraSpecs.MemoryInGBs, FloatZero)
                        THEN extraSpecs.MemoryInGBs
                        ELSE r.MemoryInGBs,
        !.BootVolumeSize = IF extraSpecs.BootVolumeSize > 0 THEN extraSpecs.BootVolumeSize
                           ELSE r.BootVolumeSize,
        !.SSHPublicKeys = IF Len(extraSpecs.SSHPublicKeys) > 0 THEN extraSpecs.SSHPublicKeys
                          ELSE r.SSHPublicKeys,
        !.DisableUpdates = IF extraSpecs.DisableUpdates THEN extraSpecs.DisableUpdates
                           ELSE r.DisableUpdates,
        !.EnableBootDebug = IF extraSpecs.EnableBootDebug THEN extraSpecs.EnableBootDebug
                            ELSE r.EnableBootDebug]

MergeExtraSpecs_overlayBoolWins(r, extraSpecs) ==
    [r EXCEPT
        !.Ocpus = IF FloatGT(extraSpecs.Ocpus, FloatZero) THEN extraSpecs.Ocpus
                  ELSE Float32(defaultOcpusAllocation, 1),
        !.MemoryInGBs = IF FloatGT(extraSpecs.MemoryInGBs, FloatZero)
                        THEN extraSpecs.MemoryInGBs
                        ELSE Float32(defaultMemoryAllocation, 1),
        !.BootVolumeSize = IF extraSpecs.BootVolumeSize > 0 THEN extraSpecs.BootVolumeSize
                           ELSE defaultBootVolumeSize,
        !.SSHPublicKeys = IF Len(extraSpecs.SSHPublicKeys) > 0 THEN extraSpecs.SSHPublicKeys
                          ELSE r.SSHPublicKeys,
        !.DisableUpdates = extraSpecs.DisableUpdates,
        !.EnableBootDebug = extraSpecs.EnableBootDebug]

MergeExtraSpecs_appendsKeys(r, extraSpecs) ==
    [r EXCEPT
        !.Ocpus = IF FloatGT(extraSpecs.Ocpus, FloatZero) THEN extraSpecs.Ocpus
                  ELSE Float32(defaultOcpusAllocation, 1),
        !.MemoryInGBs = IF FloatGT(extraSpecs.MemoryInGBs, FloatZero)
                        THEN extraSpecs.MemoryInGBs
                        ELSE Float32(defaultMemoryAllocation, 1),
        !.BootVolumeSize = IF extraSpecs.BootVolumeSize > 0 THEN extraSpecs.BootVolumeSize
                           ELSE defaultBootVolumeSize,
        !.SSHPublicKeys = r.SSHPublicKeys \o extraSpecs.SSHPublicKeys,
        !.DisableUpdates = IF extraSpecs.DisableUpdates THEN extraSpecs.DisableUpdates
                           ELSE r.DisableUpdates,
        !.EnableBootDebug = IF extraSpecs.EnableBootDebug THEN extraSpecs.EnableBootDebug
                            ELSE r.EnableBootDebug]

MergeExtraSpecs_overlayKeysWin(r, extraSpecs) ==
    [r EXCEPT
        !.Ocpus = IF FloatGT(extraSpecs.Ocpus, FloatZero) THEN extraSpecs.Ocpus
                  ELSE Float32(defaultOcpusAllocation, 1),
        !.MemoryInGBs = IF FloatGT(extraSpecs.MemoryInGBs, FloatZero)
                        THEN extraSpecs.MemoryInGBs
                        ELSE Float32(defaultMemoryAllocation, 1),
        !.BootVolumeSize = IF extraSpecs.BootVolumeSize > 0 THEN extraSpecs.BootVolumeSize
                           ELSE defaultBootVolumeSize,
        !.SSHPublicKeys = extraSpecs.SSHPublicKeys,
        !.DisableUpdates = IF extraSpecs.DisableUpdates THEN extraSpecs.DisableUpdates
                           ELSE r.DisableUpdates,
        !.EnableBootDebug = IF extraSpecs.EnableBootDebug THEN extraSpecs.EnableBootDebug
                            ELSE r.EnableBootDebug]

MergeExtraSpecs_defaultPackages(r, extraSpecs) ==
    [r EXCEPT
        !.Ocpus = IF FloatGT(extraSpecs.Ocpus, FloatZero) THEN extraSpecs.Ocpus
                  ELSE Float32(defaultOcpusAllocation, 1),
        !.MemoryInGBs = IF FloatGT(extraSpecs.MemoryInGBs, FloatZero)
                        THEN extraSpecs.MemoryInGBs
                        ELSE Float32(defaultMemoryAllocation, 1),
        !.BootVolumeSize = IF extraSpecs.BootVolumeSize > 0 THEN extraSpecs.BootVolumeSize
                           ELSE defaultBootVolumeSize,
        !.SSHPublicKeys = IF Len(extraSpecs.SSHPublicKeys) > 0 THEN extraSpecs.SSHPublicKeys
                          ELSE r.SSHPublicKeys,
        !.DisableUpdates = IF extraSpecs.DisableUpdates THEN extraSpecs.DisableUpdates
                           ELSE r.DisableUpdates,
        !.EnableBootDebug = IF extraSpecs.EnableBootDebug THEN extraSpecs.EnableBootDebug
                            ELSE r.EnableBootDebug,
        !.ExtraPackages = IF Len(extraSpecs.ExtraPackages) > 0 THEN extraSpecs.ExtraPackages
                          ELSE <<<<"c","u","r","l">>>>]

\* RunnerSpec.MergeExtraSpecs
MergeExtraSpecs(r, extraSpecs) ==
    [r EXCEPT
        !.Ocpus = IF FloatGT(extraSpecs.Ocpus, FloatZero) THEN extraSpecs.Ocpus
                  ELSE Float32(defaultOcpusAllocation, 1),
        !.MemoryInGBs = IF FloatGT(extraSpecs.MemoryInGBs, FloatZero)
                        THEN extraSpecs.MemoryInGBs
                        ELSE Float32(defaultMemoryAllocation, 1),
        !.BootVolumeSize = IF extraSpecs.BootVolumeSize > 0 THEN extraSpecs.BootVolumeSize
                           ELSE defaultBootVolumeSize,
        !.SSHPublicKeys = IF Len(extraSpecs.SSHPublicKeys) > 0 THEN extraSpecs.SSHPublicKeys
                          ELSE r.SSHPublicKeys,
        !.DisableUpdates = IF extraSpecs.DisableUpdates THEN extraSpecs.DisableUpdates
                           ELSE r.DisableUpdates,
        !.EnableBootDebug = IF extraSpecs.EnableBootDebug THEN extraSpecs.EnableBootDebug
                            ELSE r.EnableBootDebug]

ComposeUserData_anyOS(r, render) ==
    IF render.failed
    THEN [err |-> <<"failed to generate userdata", "render failure">>, udata |-> <<>>]
    ELSE [err |-> NoError, udata |-> render.bytes]

\* RunnerSpec.ComposeUserData. `render` is what cloudconfig.GetCloudConfig gives
\* for this spec: a failure, or the bytes of the rendered document.
ComposeUserData(r, render) ==
    IF r.BootstrapParams.OSType \in {Linux, Windows}
    THEN IF render.failed
         THEN [err |-> <<"failed to generate userdata", "render failure">>, udata |-> <<>>]
         ELSE [err |-> NoError, udata |-> render.bytes]
    ELSE [err |-> <<"unsupported OS type for cloud config">>, udata |-> <<>>]

SetUserData_encodesEmpty(r, render) ==
    LET customData == ComposeUserData(r, render) IN
    IF customData.err # NoError
    THEN [err |-> Wrap("failed to compose userdata", customData.err), r |-> r]
    ELSE [err |-> NoError,
          r |-> [r EXCEPT !.UserData = EncodeToString(customData.udata)]]

\* RunnerSpec.SetUserData: [err, r]
SetUserData(r, render) ==
    LET customData == ComposeUserData(r, render) IN
    IF customData.err # NoError
    THEN [err |-> Wrap("failed to compose userdata", customData.err), r |-> r]
    ELSE IF Len(customData.udata) = 0
    THEN [err |-> <<"failed to generate custom data">>, r |-> r]
    ELSE [err |-> NoError,
          r |-> [r EXCEPT !.UserData = EncodeToString(customData.udata)]]

\* the ProviderConfig the provider was constructed with
Cfg ==
    [AvailabilityDomain |-> <<"a","d">>,
     CompartmentId      |-> <<"c","o","m","p">>,
     SubnetID           |-> <<"s","u","b">>,
     NsgID              |-> <<"n","s","g">>]

GetRunnerSpecFromBootstrapParams_validatesFirst(cfg, data, controllerID, render) ==
    LET extraSpecs == newExtraSpecsFromBootstrapData(data)
        fetched == DefaultToolFetch(data.OSType, data.OSArch, data.Tools)
    IN  IF extraSpecs.err # NoError
        THEN [err |-> Wrap("error loading extra specs", extraSpecs.err), spec |-> <<>>]
        ELSE IF fetched.err # NoError
        THEN [err |-> <<"failed to get tools">>, spec |-> <<>>]
        ELSE [err |-> <<"error setting extra specs">>, spec |-> <<>>]

\* GetRunnerSpecFromBootstrapParams: [err, spec], spec a sequence of at most one RunnerSpec
GetRunnerSpecFromBootstrapParams(cfg, data, controllerID, render) ==
    LET fetched == DefaultToolFetch(data.OSType, data.OSArch, data.Tools) IN
    IF fetched.err # NoError
    THEN [err |-> <<"failed to get tools">>, spec |-> <<>>]
    ELSE LET extraSpecs == newExtraSpecsFromBootstrapData(data) IN
         IF extraSpecs.err # NoError
         THEN [err |-> Wrap("error loading extra specs", extraSpecs.err), spec |-> <<>>]
         ELSE LET spec ==
                      [AvailabilityDomain |-> cfg.AvailabilityDomain,
                       CompartmentID      |-> cfg.CompartmentId,
                       SubnetID           |-> cfg.SubnetID,
                       NsgID              |-> cfg.NsgID,
                       BootVolumeSize     |-> 0,
                       UserData           |-> EmptyString,
                       ControllerID       |-> controllerID,
                       Ocpus              |-> FloatZero,
                       MemoryInGBs        |-> FloatZero,
                       SSHPublicKeys      |-> <<>>,
                       DisableUpdates     |-> FALSE,
                       ExtraPackages      |-> extraSpecs.spec[1].ExtraPackages,
                       EnableBootDebug    |-> FALSE,
                       Tools              |-> fetched.tools[1],
                       BootstrapParams    |-> data]
                  set == SetUserData(MergeExtraSpecs(spec, extraSpecs.spec[1]), render)
              IN  IF set.err # NoError
                  THEN [err |-> Wrap("error setting extra specs", set.err), spec |-> <<>>]
                  ELSE [err |-> NoError, spec |-> <<set.r>>]

\* ---------------------------------------------------------------- launch
\* strings.Join
RECURSIVE Join(_, _)
Join(elems, sep) ==
    IF Len(elems) = 0 THEN <<>>
    ELSE IF Len(elems) = 1 THEN elems[1]
    ELSE elems[1] \o sep \o Join(Tail(elems), sep)

LaunchRequest_poolTagFromName(spec) ==
    [CompartmentId       |-> spec.CompartmentID,
     AvailabilityDomain  |-> spec.AvailabilityDomain,
     DisplayName         |-> spec.BootstrapParams.Name,
     SubnetId            |-> spec.SubnetID,
     NsgIds              |-> <<spec.NsgID>>,
     Ocpus               |-> spec.Ocpus,
     MemoryInGBs         |-> spec.MemoryInGBs,
     FreeformTags        |-> [Name               |-> spec.BootstrapParams.Name,
                              GARM_POOL_ID       |-> spec.BootstrapParams.Name,
                              OSType             |-> spec.BootstrapParams.OSType,
                              OSArch             |-> spec.BootstrapParams.OSArch,
                              GARM_CONTROLLER_ID |-> spec.ControllerID],
     Metadata            |-> [user_data           |-> spec.UserData,
                              ssh_authorized_keys |-> Join(spec.SSHPublicKeys, <<"\n">>)],
     BootVolumeSizeInGBs |-> spec.BootVolumeSize]

\* the LaunchInstanceRequest that OciCli.CreateInstance builds from a RunnerSpec
LaunchRequest(spec) ==
    [CompartmentId       |-> spec.CompartmentID,
     AvailabilityDomain  |-> spec.AvailabilityDomain,
     DisplayName         |-> spec.BootstrapParams.Name,
     SubnetId            |-> spec.SubnetID,
     NsgIds              |-> <<spec.NsgID>>,
     Ocpus               |-> spec.Ocpus,
     MemoryInGBs         |-> spec.MemoryInGBs,
     FreeformTags        |-> [Name               |-> spec.BootstrapParams.Name,
                              GARM_POOL_ID       |-> spec.BootstrapParams.PoolID,
                              OSType             |-> spec.BootstrapParams.OSType,
                              OSArch             |-> spec.BootstrapParams.OSArch,
                              GARM_CONTROLLER_ID |-> spec.ControllerID],
     Metadata            |-> [user_data           |-> spec.UserData,
                              ssh_authorized_keys |-> Join(spec.SSHPublicKeys, <<"\n">>)],
     BootVolumeSizeInGBs |-> spec.BootVolumeSize]

\* The compute service's launch: the new instance gets the next identifier and
\* the request's tags; `launchState` is the lifecycle state of the record the
\* service answers with. A full compartment is out of quota.
ComputeLaunchOk(fails) == "launch" \notin fails /\ Len(cloud) < MaxInstances

LaunchedInstance(request, launchState) ==
    [Id             |-> InstanceId(Len(cloud) + 1),
     LifecycleState |-> launchState,
     FreeformTags   |-> request.FreeformTags]

ComputeLaunchInstance(request, launchState, fails) ==
    IF ComputeLaunchOk(fails)
    THEN [err |-> NoError, Instance |-> <<LaunchedInstance(request, launchState)>>]
    ELSE [err |-> <<UpstreamError>>, Instance |-> <<>>]

\* OciCli.CreateInstance
OciCliCreateInstance(spec, launchState, fails) ==
    LET req == LaunchRequest(spec)
        response == ComputeLaunchInstance(req, launchState, fails)
        cs == <<[api |-> "launch", id |-> EmptyString, request |-> req]>>
    IN  IF response.err # NoError
        THEN Outcome(cs, "error", Wrap("error creating instance", response.err), <<>>)
        ELSE Outcome(cs, "ok", NoError, response.Instance)

\* ---------------------------------------------------------------- provider
OciProviderCreateInstance_nameAsProviderID(bootstrapParams, render, launchState, fails) ==
    LET built == GetRunnerSpecFromBootstrapParams(Cfg, bootstrapParams, ControllerID, render) IN
    IF built.err # NoError
    THEN Outcome(<<>>, "error", Wrap("error getting runner spec", built.err), <<>>)
    ELSE LET spec == built.spec[1]
             created == OciCliCreateInstance(spec, launchState, fails)
         IN  IF created.err # NoError
             THEN Outcome(created.calls, "error",
                          Wrap("error creating instance", created.err), <<>>)
             ELSE Outcome(created.calls, "ok", NoError,
                          <<[ProviderID |-> spec.BootstrapParams.Name,
                             Name       |-> spec.BootstrapParams.Name,
                             OSType     |-> spec.BootstrapParams.OSType,
                             OSArch     |-> spec.BootstrapParams.OSArch,
                             Status     |-> "running"]>>)

\* OciProvider.CreateInstance
OciProviderCreateInstance(bootstrapParams, render, launchState, fails) ==
    LET built == GetRunnerSpecFromBootstrapParams(Cfg, bootstrapParams, ControllerID, render) IN
    IF built.err # NoError
    THEN Outcome(<<>>, "error", Wrap("error getting runner spec", built.err), <<>>)
    ELSE LET spec == built.spec[1]
             created == OciCliCreateInstance(spec, launchState, fails)
         IN  IF created.err # NoError
             THEN Outcome(created.calls, "error",
                          Wrap("error creating instance", created.err), <<>>)
             ELSE Outcome(created.calls, "ok", NoError,
                          <<[ProviderID |-> created.value[1].Id,
                             Name       |-> spec.BootstrapParams.Name,
                             OSType     |-> spec.BootstrapParams.OSType,
                             OSArch     |-> spec.BootstrapParams.OSArch,
                             Status     |-> "running"]>>)

\* OciProvider.GetInstance
OciProviderGetInstance(instanceID, fails) ==
    LET got == OciCliGetInstance(instanceID, fails) IN
    IF got.outcome = "panic" THEN got
    ELSE IF got.err # NoError
    THEN Outcome(got.calls, "error", Wrap("error getting instance", got.err), <<>>)
    ELSE Outcome(got.calls, "ok", NoError, <<OciInstanceToProviderInstance(got.value[1])>>)

\* OciProvider.DeleteInstance
OciProviderDeleteInstance(instanceID, fails) == OciCliDeleteInstance(instanceID, fails)

\* the loop of OciProvider.ListInstances, from index i
RECURSIVE NormalizeAll(_, _)
NormalizeAll(ociInstances, i) ==
    IF i > Len(ociInstances) THEN <<>>
    ELSE <<OciInstanceToProviderInstance(ociInstances[i])>> \o NormalizeAll(ociInstances, i + 1)

\* OciProvider.ListInstances
OciProviderListInstances(poolID, fails) ==
    LET listed == OciCliListInstances(poolID, fails) IN
    IF listed.err # NoError
    THEN Outcome(listed.calls, "error", Wrap("error listing instances", listed.err), <<>>)
    ELSE Outcome(listed.calls, "ok", NoError, NormalizeAll(listed.value, 1))

\* OciProvider.Stop and OciProvider.Start
OciProviderStop(instance, force, fails) == OciCliStopInstance(instance, fails)

OciProviderStart(instance, fails) == OciCliStartInstance(instance, fails)

\* ---------------------------------------------------------------- inputs
\* instance handles: display names (one of them one character short of the
\* identifier prefix) and identifiers (the bare prefix included)
NameHandles == {R1, R2, SubSeq(OcidPrefix, 1, Len(OcidPrefix) - 1)}
OcidHandles == {InstanceId(i) : i \in 1..MaxInstances} \cup {OcidPrefix}
Handles == NameHandles \cup OcidHandles

PoolIDs == {P1, P2, EmptyString}

\* the constraint sets handed to the tag-based resolver
TagQueries ==
    {[Name |-> R1], [Name |-> R2], [Name |-> R1, GARM_POOL_ID |-> P1],
     [GARM_POOL_ID |-> P2]}

ToolsLinuxAmd64 == [OS |-> Linux, Architecture |-> Amd64]
ToolsWindowsArm64 == [OS |-> Windows, Architecture |-> Arm64]
AllTools == <<ToolsLinuxAmd64, ToolsWindowsArm64>>

DocEmptyObject == JsonDoc(TRUE, <<>>)
DocSizing ==
    JsonDoc(TRUE, [ocpus |-> JsonValue("number", Float32(5, 2)),
                   memory_in_gbs |-> JsonValue("integer", 8),
                   boot_volume_size |-> JsonValue("integer", 256),
                   ssh_public_keys |-> JsonValue("array", <<<<"k","1">>, <<"k","2">>>>),
                   extra_packages |-> JsonValue("array", <<<<"g","i","t">>, <<"j","q">>>>),
                   runner_install_template |-> JsonValue("string", <<"I","y","E","=">>),
                   pre_install_scripts |->
                       JsonValue("object", [setup |-> <<"I","y","E","K">>]),
                   extra_context |-> JsonValue("object", [key |-> <<"v">>])])
DocMalformed == JsonDoc(FALSE, <<>>)
DocUnknownKey == JsonDoc(TRUE, [unexpected_field |-> JsonValue("integer", 1)])
DocWrongType == JsonDoc(TRUE, [ocpus |-> JsonValue("string", <<"2">>)])

Bootstrap(name, pool, osType, osArch, tools, extraSpecs) ==
    [Name |-> name, PoolID |-> pool, OSType |-> osType, OSArch |-> osArch,
     Tools |-> tools, ExtraSpecs |-> extraSpecs]

\* the bootstrap requests the orchestrator sends
BootstrapRequests ==
    {Bootstrap(R1, P1, Linux, Amd64, AllTools, DocEmptyObject),
     Bootstrap(R2, P2, Windows, Arm64, AllTools, DocSizing),
     Bootstrap(R2, P1, <<"b","s","d">>, Amd64,
               <<[OS |-> <<"b","s","d">>, Architecture |-> Amd64]>>, DocEmptyObject),
     Bootstrap(R1, P1, Linux, Arm64, AllTools, DocMalformed),
     Bootstrap(R1, P1, Linux, Amd64, AllTools, DocMalformed),
     Bootstrap(R1, P1, Linux, Amd64, AllTools, DocUnknownKey),
     Bootstrap(R1, P1, Linux, Amd64, AllTools, DocWrongType),
     Bootstrap(R1, P1, Linux, Amd64, AllTools, EmptyBlob),
     Bootstrap(R1, P2, EmptyString, Arm64,
               <<[OS |-> EmptyString, Architecture |-> Arm64]>>, DocSizing)}

\* what the payload renderer may give
RenderOutcomes ==
    {[failed |-> TRUE, bytes |-> <<>>],
     [failed |-> FALSE, bytes |-> <<>>],
     [failed |-> FALSE, bytes |-> <<35, 33, 10, 104>>]}

\* the lifecycle state of the record a launch answers with
LaunchStates == {"PROVISIONING", "RUNNING"}

\* the tags of instances that other tenants of the compartment launch
ExternalTags == {<<>>}

\* ---------------------------------------------------------------- state machine
Idle == [name |-> "idle", arg |-> <<>>]
NoReturn == [outcome |-> "none", err |-> NoError, value |-> <<>>]

Init ==
    /\ cloud = <<>>
    /\ op = Idle
    /\ ret = NoReturn
    /\ calls = <<>>
    /\ before = <<>>

\* what one accepted call does to the compartment
CallEffect(c, launchState, fails) ==
    CASE c.api = "terminate" /\ ComputeTerminateOk(c.id, fails) ->
            CloudAfter(c.id, TerminateChange)
      [] c.api = "action" /\ ComputeActionOk(c.id, fails) ->
            CloudAfter(c.id, IF c.action = "STOP" THEN StopChange ELSE StartChange)
      [] c.api = "launch" /\ ComputeLaunchOk(fails) ->
            Append(cloud, LaunchedInstance(c.request, launchState))
      [] OTHER -> cloud

\* The orchestrator runs the plugin once per operation: an operation is invoked
\* when none is in progress and runs to completion. Only the last call of an
\* operation changes the compartment (list and point-get read it).
\* `op.fails` keeps which of the calls issued the service refused for reasons of
\* its own.
Returned(name, arg, o, launchState, fails) ==
    /\ op = Idle
    /\ op' = [name |-> name, arg |-> arg,
              fails |-> fails \cap {o.calls[i].api : i \in 1..Len(o.calls)}]
    /\ ret' = [outcome |-> o.outcome, err |-> o.err, value |-> o.value]
    /\ calls' = o.calls
    /\ before' = cloud
    /\ cloud' = IF o.calls = <<>> THEN cloud
                ELSE CallEffect(o.calls[Len(o.calls)], launchState, fails)

FindByTags ==
    \E tags \in TagQueries, fails \in SUBSET {"list"} :
        Returned("FindInstanceByTags", tags, FindInstanceByTags(tags, fails),
                 "PROVISIONING", fails)

GetInstance ==
    \E handle \in Handles, fails \in SUBSET {"list", "get"} :
        Returned("GetInstance", handle, OciProviderGetInstance(handle, fails),
                 "PROVISIONING", fails)

DeleteInstance ==
    \E handle \in Handles, fails \in SUBSET {"list", "terminate"} :
        Returned("DeleteInstance", handle, OciProviderDeleteInstance(handle, fails),
                 "PROVISIONING", fails)

ListInstances ==
    \E poolID \in PoolIDs, fails \in SUBSET {"list"} :
        Returned("ListInstances", poolID, OciProviderListInstances(poolID, fails),
                 "PROVISIONING", fails)

CreateInstance ==
    \E b \in BootstrapRequests, render \in RenderOutcomes,
       launchState \in LaunchStates, fails \in SUBSET {"launch"} :
        Returned("CreateInstance", [bootstrap |-> b, render |-> render],
                 OciProviderCreateInstance(b, render, launchState, fails),
                 launchState, fails)

Stop ==
    \E handle \in Handles, force \in BOOLEAN, fails \in SUBSET {"action"} :
        Returned("Stop", [instance |-> handle, force |-> force],
                 OciProviderStop(handle, force, fails), "PROVISIONING", fails)

Start ==
    \E handle \in Handles, fails \in SUBSET {"action"} :
        Returned("Start", handle, OciProviderStart(handle, fails), "PROVISIONING", fails)

\* another tenant of the compartment launches an instance
ExternalLaunch ==
    /\ op = Idle
    /\ Len(cloud) < MaxInstances
    /\ \E tags \in ExternalTags :
        cloud' = Append(cloud, [Id             |-> InstanceId(Len(cloud) + 1),
                                LifecycleState |-> "PROVISIONING",
                                FreeformTags   |-> tags])
    /\ UNCHANGED <<op, ret, calls, before>>

\* where the compute service takes an instance by itself
Progress(state) ==
    CASE state = "PROVISIONING" -> "RUNNING"
      [] state = "STARTING" -> "RUNNING"
      [] state = "STOPPING" -> "STOPPED"
      [] state = "TERMINATING" -> "TERMINATED"
      [] OTHER -> state

\* where another user of the compartment (console, guest shutdown) may take it
Manual(state) ==
    CASE state = "RUNNING" -> {"STOPPING", "TERMINATING"}
      [] state = "STOPPED" -> {"STARTING", "TERMINATING"}
      [] state \in {"PROVISIONING", "STARTING", "STOPPING"} -> {"TERMINATING"}
      [] OTHER -> {}

\* the compute service moves an instance through its lifecycle; Terminated is final
CloudLifecycle ==
    /\ op = Idle
    /\ \E i \in 1..Len(cloud) :
        \E s \in ({Progress(cloud[i].LifecycleState)} \cup Manual(cloud[i].LifecycleState))
                 \ {cloud[i].LifecycleState} :
            cloud' = [cloud EXCEPT ![i].LifecycleState = s]
    /\ UNCHANGED <<op, ret, calls, before>>

\* the plugin process hands its result to the orchestrator and exits
Exit ==
    /\ op # Idle
    /\ op' = Idle /\ ret' = NoReturn /\ calls' = <<>> /\ before' = <<>>
    /\ UNCHANGED cloud

Next ==
    \/ FindByTags
    \/ GetInstance
    \/ DeleteInstance
    \/ ListInstances
    \/ CreateInstance
    \/ Stop
    \/ Start
    \/ ExternalLaunch
    \/ CloudLifecycle
    \/ Exit

Spec == Init /\ [][Next]_vars

\* ---------------------------------------------------------------- normalisation alone
\* OciInstanceToProviderInstance applied to every record the service may send:
\* each lifecycle state of the enumeration, with full, partial and absent tags.
NormalizeTags ==
    {<<>>,
     [Name |-> R1],
     [OSType |-> Linux, OSArch |-> Amd64],
     [Name |-> R1, GARM_POOL_ID |-> P1, OSType |-> Linux, OSArch |-> Amd64,
      GARM_CONTROLLER_ID |-> ControllerID],
     [Name |-> R2, GARM_POOL_ID |-> P2, OSType |-> Windows, OSArch |-> Arm64,
      GARM_CONTROLLER_ID |-> ControllerID]}

NormalizeInit ==
    /\ \E i \in 1..MaxInstances, state \in LifecycleStates, tags \in NormalizeTags :
        cloud = <<[Id |-> InstanceId(i), LifecycleState |-> state, FreeformTags |-> tags]>>
    /\ op = Idle
    /\ ret = NoReturn
    /\ calls = <<>>
    /\ before = <<>>

Normalize ==
    /\ op = Idle
    /\ op' = [name |-> "OciInstanceToProviderInstance", arg |-> cloud[1]]
    /\ ret' = [outcome |-> "ok", err |-> NoError,
               value |-> <<OciInstanceToProviderInstance(cloud[1])>>]
    /\ calls' = <<>>
    /\ before' = cloud
    /\ UNCHANGED cloud

NormalizeNext ==
    \/ Normalize
    \/ Exit

SpecNormalize == NormalizeInit /\ [][NormalizeNext]_vars

\* ---------------------------------------------------------------- merge alone
\* RunnerSpec.MergeExtraSpecs applied again and again to one RunnerSpec, which
\* `ret.value` holds; `before` is the RunnerSpec as it was when the last merge
\* began, `op.arg` the overlay of the last merge and `op.prev` the overlay of the
\* merge before it (none for the first).
K1 == <<"k","1">>
K2 == <<"k","2">>
K9 == <<"k","9">>

\* a RunnerSpec with these values in the fields that a merge writes
RunnerSpecWith(sizing, keys, disableUpdates, enableBootDebug) ==
    [AvailabilityDomain |-> Cfg.AvailabilityDomain,
     CompartmentID      |-> Cfg.CompartmentId,
     SubnetID           |-> Cfg.SubnetID,
     NsgID              |-> Cfg.NsgID,
     BootVolumeSize     |-> sizing[3],
     UserData           |-> EmptyString,
     ControllerID       |-> ControllerID,
     Ocpus              |-> sizing[1],
     MemoryInGBs        |-> sizing[2],
     SSHPublicKeys      |-> keys,
     DisableUpdates     |-> disableUpdates,
     ExtraPackages      |-> <<>>,
     EnableBootDebug    |-> enableBootDebug,
     Tools              |-> ToolsLinuxAmd64,
     BootstrapParams    |-> Bootstrap(R1, P1, Linux, Amd64, AllTools, DocEmptyObject)]

\* <<Ocpus, MemoryInGBs, BootVolumeSize>> of the RunnerSpec before the first merge:
\* the zero values of a fresh RunnerSpec, and values set by hand
PriorSizings == {<<FloatZero, FloatZero, 0>>, <<Float32(3, 1), Float32(16, 1), 128>>}

PriorSpecs ==
    {RunnerSpecWith(sizing, keys, du, ebd) :
        sizing \in PriorSizings, keys \in {<<>>, <<K9>>}, du \in BOOLEAN, ebd \in BOOLEAN}

\* <<Ocpus, MemoryInGBs, BootVolumeSize>> of an overlay: unset, negative,
\* whole and fractional
OverlaySizings ==
    {<<FloatZero, FloatZero, 0>>,
     <<Float32(-1, 1), Float32(-1, 2), -1>>,
     <<Float32(5, 2), Float32(8, 1), 256>>,
     <<Float32(2, 1), Float32(1, 2), 0>>,
     <<FloatZero, Float32(4, 1), 1>>}

MergeOverlays ==
    {[ZeroExtraSpecs EXCEPT !.Ocpus = sizing[1], !.MemoryInGBs = sizing[2],
                            !.BootVolumeSize = sizing[3], !.SSHPublicKeys = keys,
                            !.DisableUpdates = du, !.EnableBootDebug = ebd] :
        sizing \in OverlaySizings, keys \in {<<>>, <<K1, K2>>},
        du \in BOOLEAN, ebd \in BOOLEAN}

MergeInit ==
    /\ cloud = <<>>
    /\ op = [name |-> "idle", arg |-> <<>>, prev |-> <<>>]
    /\ \E r \in PriorSpecs : ret = [outcome |-> "none", err |-> NoError, value |-> <<r>>]
    /\ calls = <<>>
    /\ before = <<>>

Merge ==
    \E extraSpecs \in MergeOverlays :
        /\ op' = [name |-> "MergeExtraSpecs", arg |-> extraSpecs,
                  prev |-> IF op.name = "idle" THEN <<>> ELSE <<op.arg>>]
        /\ before' = ret.value[1]
        /\ ret' = [outcome |-> "ok", err |-> NoError,
                   value |-> <<MergeExtraSpecs(ret.value[1], extraSpecs)>>]
        /\ UNCHANGED <<cloud, calls>>

MergeNext == Merge

SpecMerge == MergeInit /\ [][MergeNext]_vars

\* ---------------------------------------------------------------- extra specs alone
\* newExtraSpecsFromBootstrapData applied to every blob of a family: objects
\* that hold any choice of these members with any of these values, a blob that
\* is cut short, and a blob without bytes. `before` holds the bootstrap request.
MemberValues ==
    [ocpus                   |-> {JsonValue("integer", 2), JsonValue("number", Float32(5, 2)),
                                  JsonValue("string", <<"2">>)},
     memory_in_gbs           |-> {JsonValue("integer", 8), JsonValue("string", <<"8">>)},
     boot_volume_size        |-> {JsonValue("integer", 256), JsonValue("string", <<"2","5","6">>),
                                  JsonValue("number", Float32(5, 2))},
     ssh_public_keys         |-> {JsonValue("array", <<K1>>), JsonValue("string", K1)},
     runner_install_template |-> {JsonValue("string", <<"I","y","E","=">>),
                                  JsonValue("string", <<"#","!">>), JsonValue("integer", 123)},
     disable_updates         |-> {JsonValue("boolean", TRUE)},
     unexpected_field        |-> {JsonValue("integer", 1)},
     extra                   |-> {JsonValue("string", <<"e","x","t","r","a">>)}]

\* the member maps over these keys
RECURSIVE MemberMaps(_)
MemberMaps(keys) ==
    IF keys = {} THEN {<<>>}
    ELSE LET k == CHOOSE x \in keys : TRUE
             rest == MemberMaps(keys \ {k})
         IN  rest \cup
             {[x \in DOMAIN m \cup {k} |-> IF x = k THEN v ELSE m[x]] :
                  m \in rest, v \in MemberValues[k]}

ExtraSpecsBlobs ==
    {JsonDoc(TRUE, m) : m \in MemberMaps(DOMAIN MemberValues)}
    \cup {DocMalformed, EmptyBlob}

ExtraSpecsInit ==
    /\ cloud = <<>>
    /\ op = Idle
    /\ ret = NoReturn
    /\ calls = <<>>
    /\ \E blob \in ExtraSpecsBlobs : before = Bootstrap(R1, P1, Linux, Amd64, AllTools, blob)

ParseExtraSpecs ==
    /\ op = Idle
    /\ LET parsed == newExtraSpecsFromBootstrapData(before) IN
        /\ op' = [name |-> "newExtraSpecsFromBootstrapData", arg |-> before]
        /\ ret' = [outcome |-> IF parsed.err = NoError THEN "ok" ELSE "error",
                   err |-> parsed.err, value |-> parsed.spec]
    /\ UNCHANGED <<cloud, calls, before>>

ExtraSpecsNext == ParseExtraSpecs

SpecExtraSpecs == ExtraSpecsInit /\ [][ExtraSpecsNext]_vars

\* ---------------------------------------------------------------- configuration alone
\* Config.Validate: the first complaint in the order of the checks, nil when
\* there is none
Validate_skipsFingerprint(c) ==
    IF c.AvailabilityDomain = EmptyString THEN <<"availability_domain is required">>
    ELSE IF c.CompartmentId = EmptyString THEN <<"compartment_id is required">>
    ELSE IF c.SubnetID = EmptyString THEN <<"subnet_id is required">>
    ELSE IF c.NsgID = EmptyString THEN <<"ngs_id is required">>
    ELSE IF c.TenancyID = EmptyString THEN <<"tenancy_id is required">>
    ELSE IF c.UserID = EmptyString THEN <<"user_id is required">>
    ELSE IF c.Region = EmptyString THEN <<"region is required">>
    ELSE IF c.PrivateKeyPath = EmptyString THEN <<"private_key_path is required">>
    ELSE NoError

Validate(c) ==
    IF c.AvailabilityDomain = EmptyString THEN <<"availability_domain is required">>
    ELSE IF c.CompartmentId = EmptyString THEN <<"compartment_id is required">>
    ELSE IF c.SubnetID = EmptyString THEN <<"subnet_id is required">>
    ELSE IF c.NsgID = EmptyString THEN <<"ngs_id is required">>
    ELSE IF c.TenancyID = EmptyString THEN <<"tenancy_id is required">>
    ELSE IF c.UserID = EmptyString THEN <<"user_id is required">>
    ELSE IF c.Region = EmptyString THEN <<"region is required">>
    ELSE IF c.Fingerprint = EmptyString THEN <<"fingerprint is required">>
    ELSE IF c.PrivateKeyPath = EmptyString THEN <<"private_key_path is required">>
    ELSE NoError

\* NewConfig: [err, config], config a sequence of at most one Config. A file is
\* whether the TOML decoder reads it, and the Config it decodes to (a key that
\* the file leaves out decodes to the empty string).
NewConfig(cfgFile) ==
    IF ~cfgFile.decodes
    THEN [err |-> <<"error decoding config", "toml failure">>, config |-> <<>>]
    ELSE IF Validate(cfgFile.config) # NoError
    THEN [err |-> Wrap("error validating config", Validate(cfgFile.config)),
          config |-> <<>>]
    ELSE [err |-> NoError, config |-> <<cfgFile.config>>]

\* NewOciProvider; `clientOk` is whether NewOciCli can read the private key and
\* build the compute client
NewOciProvider(cfgFile, controllerID, clientOk) ==
    LET conf == NewConfig(cfgFile) IN
    IF conf.err # NoError
    THEN Outcome(<<>>, "error", Wrap("error loading config", conf.err), <<>>)
    ELSE IF ~clientOk
    THEN Outcome(<<>>, "error", <<"error creating oci client", "client failure">>, <<>>)
    ELSE Outcome(<<>>, "ok", NoError,
                 <<[cfg |-> conf.config[1], controllerID |-> controllerID]>>)

ConfigFields ==
    {"AvailabilityDomain", "CompartmentId", "SubnetID", "NsgID", "TenancyID", "UserID",
     "Region", "Fingerprint", "PrivateKeyPath", "PrivateKeyPassword"}

\* the configuration files: one the decoder refuses, and every choice of keys
\* that are set
ConfigFiles ==
    {[decodes |-> FALSE, config |-> [f \in ConfigFields |-> EmptyString]]}
    \cup {[decodes |-> TRUE, config |-> c] : c \in [ConfigFields -> {EmptyString, <<"x">>}]}

ConfigInit ==
    /\ cloud = <<>>
    /\ op = Idle
    /\ ret = NoReturn
    /\ calls = <<>>
    /\ before \in ConfigFiles

Construct ==
    /\ op = Idle
    /\ \E clientOk \in BOOLEAN :
        LET o == NewOciProvider(before, ControllerID, clientOk) IN
        /\ op' = [name |-> "NewOciProvider", arg |-> before]
        /\ ret' = [outcome |-> o.outcome, err |-> o.err, value |-> o.value]
    /\ UNCHANGED <<cloud, calls, before>>

ConfigNext == Construct

SpecConfig == ConfigInit /\ [][ConfigNext]_vars

\* ---------------------------------------------------------------- SetUserData, step by step
\* Concurrent calls of SetUserData on one RunnerSpec. `ret.value` holds the
\* RunnerSpec, with its guard `mux` (0 when free, else the caller that holds it);
\* `calls` holds, for each caller, where it is in the method (pc), the bytes it
\* rendered and the error it is about to return; `before` is the RunnerSpec as
\* it was before any call.
Callers == 1..MaxCallers

UserDataSpecs ==
    {[RunnerSpecWith(<<FloatZero, FloatZero, 0>>, <<>>, FALSE, FALSE)
         EXCEPT !.UserData = payload, !.BootstrapParams.OSType = osType]
       @@ [mux |-> 0] :
        payload \in {EmptyString, <<"Q","Q","=","=">>}, osType \in {Linux, <<"b","s","d">>}}

UserDataInit ==
    /\ cloud = <<>>
    /\ op = [name |-> "SetUserData", arg |-> <<>>]
    /\ \E r \in UserDataSpecs :
        /\ ret = [outcome |-> "none", err |-> NoError, value |-> <<r>>]
        /\ before = r
    /\ calls = [g \in Callers |-> [pc |-> "start", udata |-> <<>>, err |-> NoError]]

\* the step of caller g to position pc, with these bytes and this error, and
\* the RunnerSpec left as r
Moves(g, pc, udata, err, r) ==
    /\ calls' = [calls EXCEPT ![g] = [pc |-> pc, udata |-> udata, err |-> err]]
    /\ ret' = [ret EXCEPT !.value = <<r>>]
    /\ UNCHANGED <<cloud, op, before>>

Lock_noWait(g) ==
    /\ calls[g].pc = "start"
    /\ Moves(g, "compose", <<>>, NoError, [ret.value[1] EXCEPT !.mux = g])

\* r.mux.Lock(): waits until the guard is free
Lock(g) ==
    /\ calls[g].pc = "start"
    /\ ret.value[1].mux = 0
    /\ Moves(g, "compose", <<>>, NoError, [ret.value[1] EXCEPT !.mux = g])

\* customData, err := r.ComposeUserData()
Compose(g) ==
    /\ calls[g].pc = "compose"
    /\ \E render \in RenderOutcomes :
        LET customData == ComposeUserData(ret.value[1], render) IN
        IF customData.err # NoError
        THEN Moves(g, "unlock", <<>>, Wrap("failed to compose userdata", customData.err),
                   ret.value[1])
        ELSE Moves(g, "check", customData.udata, NoError, ret.value[1])

\* if len(customData) == 0
CheckLen(g) ==
    /\ calls[g].pc = "check"
    /\ IF Len(calls[g].udata) = 0
       THEN Moves(g, "unlock", calls[g].udata, <<"failed to generate custom data">>,
                  ret.value[1])
       ELSE Moves(g, "encode", calls[g].udata, NoError, ret.value[1])

\* r.UserData = base64.StdEncoding.EncodeToString(customData)
Encode(g) ==
    /\ calls[g].pc = "encode"
    /\ Moves(g, "unlock", calls[g].udata, NoError,
             [ret.value[1] EXCEPT !.UserData = EncodeToString(calls[g].udata)])

\* the deferred r.mux.Unlock(), then the return
Unlock(g) ==
    /\ calls[g].pc = "unlock"
    /\ Moves(g, "returned", calls[g].udata, calls[g].err, [ret.value[1] EXCEPT !.mux = 0])

CallerStep(g) == Lock(g) \/ Compose(g) \/ CheckLen(g) \/ Encode(g) \/ Unlock(g)

UserDataNext ==
    \/ \E g \in Callers : Lock(g)
    \/ \E g \in Callers : Compose(g)
    \/ \E g \in Callers : CheckLen(g)
    \/ \E g \in Callers : Encode(g)
    \/ \E g \in Callers : Unlock(g)

\* a goroutine that can run does run, and the renderer returns
SpecUserData ==
    /\ UserDataInit
    /\ [][UserDataNext]_vars
    /\ \A g \in Callers : WF_vars(CallerStep(g))

\* ================================================================ claims
\* the handle has the shape of an instance identifier
IsOcid(handle) ==
    /\ Len(handle) >= Len(OcidPrefix)
    /\ \A i \in 1..Len(OcidPrefix) : handle[i] = OcidPrefix[i]

\* the instance is not Terminated and carries every requested tag value
LiveMatch(instance, tags) ==
    /\ instance.LifecycleState # "TERMINATED"
    /\ \A key \in DOMAIN tags : TagGet(instance.FreeformTags, key) = tags[key]

MatchingIndexes(items, tags) == {i \in 1..Len(items) : LiveMatch(items[i], tags)}

\* the first live match in listing order, as a sequence of at most one instance
FirstMatch(items, tags) ==
    IF MatchingIndexes(items, tags) = {} THEN <<>>
    ELSE <<items[CHOOSE i \in MatchingIndexes(items, tags) :
                     \A j \in MatchingIndexes(items, tags) : i <= j]>>

HasCall(api) == \E i \in 1..Len(calls) : calls[i].api = api

\* the operation's list call was answered
ListAnswered == HasCall("list") /\ ~ErrorsIs(ret.err, "error listing instances")

\* C1: DeleteInstance of a display name that no live listed instance carries
\* returns success, does not crash and issues no terminate call.
C1_DeleteAbsentNameSucceeds ==
    (/\ op.name = "DeleteInstance"
     /\ ~IsOcid(op.arg)
     /\ ListAnswered
     /\ MatchingIndexes(before, [Name |-> op.arg]) = {})
    => (ret.outcome = "ok" /\ ~HasCall("terminate"))

\* C2: the tag-based resolver returns the first listed instance that is not
\* Terminated and matches every requested tag; earlier instances that are
\* Terminated or do not match are skipped.
C2_ResolverReturnsFirstMatch ==
    (op.name = "FindInstanceByTags" /\ ListAnswered)
    => ret.value = FirstMatch(before, op.arg)

\* C3: when no live listed instance carries the requested name, the name-based
\* resolver reports a NotFound error, never "no error and no instance".
C3_ResolverReportsNotFound ==
    (/\ op.name = "FindInstanceByTags"
     /\ DOMAIN op.arg = {"Name"}
     /\ ListAnswered
     /\ MatchingIndexes(before, op.arg) = {})
    => (ret.outcome = "error" /\ ErrorsIs(ret.err, ErrNotFound))

\* C4: GetInstance of a display name that no live listed instance carries
\* returns an error, issues no point-get and returns no normalized instance.
C4_GetAbsentNameReturnsError ==
    (/\ op.name = "GetInstance"
     /\ ~IsOcid(op.arg)
     /\ ListAnswered
     /\ MatchingIndexes(before, [Name |-> op.arg]) = {})
    => (ret.outcome = "error" /\ ret.err # NoError /\ ~HasCall("get") /\ ret.value = <<>>)

\* C5: for a handle that starts with the identifier prefix, GetInstance issues
\* exactly one point-get and DeleteInstance exactly one terminate, each with the
\* handle as the instance ID, and neither lists.
C5_OcidHandleGoesDirect ==
    /\ (op.name = "GetInstance" /\ IsOcid(op.arg))
       => calls = <<ApiCall("get", op.arg)>>
    /\ (op.name = "DeleteInstance" /\ IsOcid(op.arg))
       => calls = <<ApiCall("terminate", op.arg)>>

C5_Witness ==
    /\ op.name = "DeleteInstance"
    /\ IsOcid(op.arg)
    /\ ret.outcome = "ok"
    /\ \E i \in 1..Len(cloud) :
        /\ cloud[i].Id = op.arg
        /\ before[i].LifecycleState = "RUNNING"
        /\ cloud[i].LifecycleState = "TERMINATING"

\* C6: GetInstance of a display name that exactly one live listed instance
\* carries calls list, then point-get with that instance's ID, and returns the
\* normalization of the point-get record.
C6_GetByNameResolvesThenFetches ==
    (/\ op.name = "GetInstance"
     /\ ~IsOcid(op.arg)
     /\ Cardinality(MatchingIndexes(before, [Name |-> op.arg])) = 1
     /\ ret.outcome # "error")
    => LET resolved == FirstMatch(before, [Name |-> op.arg])[1] IN
       /\ calls = <<ApiCall("list", EmptyString), ApiCall("get", resolved.Id)>>
       /\ ret.outcome = "ok"
       /\ ret.value = <<OciInstanceToProviderInstance(resolved)>>
       /\ ret.value[1].ProviderID = resolved.Id

\* C7: the status mapping is total: Running gives running, Stopped and
\* Terminated give stopped, every other lifecycle state gives unknown.
C7_StatusMappingTotal ==
    op.name = "OciInstanceToProviderInstance"
    => LET state == op.arg.LifecycleState
           status == ret.value[1].Status
       IN  /\ ret.outcome = "ok"
           /\ Len(ret.value) = 1
           /\ status \in {"running", "stopped", "unknown"}
           /\ state = "RUNNING" => status = "running"
           /\ state \in {"STOPPED", "TERMINATED"} => status = "stopped"
           /\ state \notin {"RUNNING", "STOPPED", "TERMINATED"} => status = "unknown"

C7_Witness ==
    /\ op.name = "OciInstanceToProviderInstance"
    /\ op.arg.LifecycleState = "TERMINATED"
    /\ ret.value[1].Status = "stopped"

\* C8: ListInstances(poolID) returns exactly the listed instances whose
\* GARM_POOL_ID tag equals poolID and that are not Terminated, each normalized,
\* in listing order.
C8_ListFiltersByPoolInOrder ==
    (op.name = "ListInstances" /\ ret.outcome = "ok")
    => LET kept == SelectSeq(before,
                       LAMBDA x : LiveMatch(x, [GARM_POOL_ID |-> op.arg]))
       IN  /\ Len(ret.value) = Len(kept)
           /\ \A k \in 1..Len(kept) :
                /\ ret.value[k].ProviderID = kept[k].Id
                /\ ret.value[k] = OciInstanceToProviderInstance(kept[k])

C8_Witness ==
    /\ op.name = "ListInstances"
    /\ ret.outcome = "ok"
    /\ Len(before) = MaxInstances
    /\ Len(ret.value) = 1
    /\ ret.value[1].ProviderID = before[Len(before)].Id
    /\ \E i \in 1..Len(before) - 1 : before[i].LifecycleState = "TERMINATED"

\* the bootstrap request is one the builder accepts and the renderer renders
ValidBootstrap(arg) ==
    /\ arg.bootstrap.OSType \in {Linux, Windows}
    /\ \E i \in 1..Len(arg.bootstrap.Tools) :
        /\ arg.bootstrap.Tools[i].OS = arg.bootstrap.OSType
        /\ arg.bootstrap.Tools[i].Architecture = arg.bootstrap.OSArch
    /\ arg.bootstrap.ExtraSpecs \in {DocEmptyObject, DocSizing}
    /\ ~arg.render.failed
    /\ arg.render.bytes # <<>>

\* the record the launch call answered with (no other step has run since)
Launched == cloud[Len(cloud)]

\* C9: CreateInstance with a valid bootstrap request, answered by the service
\* with an instance in state Running, returns ProviderID = the new instance's ID,
\* Name, OSType and OSArch of the bootstrap request, and Status Running.
C9_CreateReturnsRunningInstance ==
    (op.name = "CreateInstance" /\ ValidBootstrap(op.arg))
    => /\ HasCall("launch")
       /\ ret.outcome = "ok" \/ ErrorsIs(ret.err, UpstreamError)
       /\ (Len(cloud) = Len(before) + 1 /\ Launched.LifecycleState = "RUNNING")
          => /\ ret.outcome = "ok"
             /\ ret.value = <<[ProviderID |-> Launched.Id,
                               Name       |-> op.arg.bootstrap.Name,
                               OSType     |-> op.arg.bootstrap.OSType,
                               OSArch     |-> op.arg.bootstrap.OSArch,
                               Status     |-> "running"]>>

C9_Witness ==
    /\ op.name = "CreateInstance"
    /\ ValidBootstrap(op.arg)
    /\ Len(cloud) = Len(before) + 1
    /\ Launched.LifecycleState = "RUNNING"
    /\ ret.outcome = "ok"
    /\ ret.value[1].Name = R2

\* C10: the instance CreateInstance returns is the normalization of the record
\* the launch call answered with: status by the status mapping, name and OS
\* fields from the record's tags.
C10_CreateNormalizesLaunchRecord ==
    (op.name = "CreateInstance" /\ ret.outcome = "ok")
    => ret.value = <<OciInstanceToProviderInstance(Launched)>>

\* C11: every launch request that CreateInstance issues carries the tags Name,
\* GARM_POOL_ID, OSType and OSArch with the values of the bootstrap request, and
\* GARM_CONTROLLER_ID with the controller ID the spec was built from.
C11_LaunchRequestCarriesTags ==
    op.name = "CreateInstance"
    => \A i \in 1..Len(calls) :
          calls[i].api = "launch"
          => LET tags == calls[i].request.FreeformTags IN
             /\ TagKeys \subseteq DOMAIN tags
             /\ tags["Name"] = op.arg.bootstrap.Name
             /\ tags["GARM_POOL_ID"] = op.arg.bootstrap.PoolID
             /\ tags["OSType"] = op.arg.bootstrap.OSType
             /\ tags["OSArch"] = op.arg.bootstrap.OSArch
             /\ tags["GARM_CONTROLLER_ID"] = ControllerID

C11_Witness ==
    /\ op.name = "CreateInstance"
    /\ Len(calls) = 1
    /\ calls[1].api = "launch"
    /\ calls[1].request.FreeformTags["Name"] = R2
    /\ calls[1].request.FreeformTags["GARM_POOL_ID"] = P2
    /\ calls[1].request.FreeformTags["OSType"] = Windows
    /\ Len(cloud) = Len(before) + 1
    /\ Launched.FreeformTags = calls[1].request.FreeformTags

\* the float32 value is strictly greater than zero
Positive(f) == f.n > 0 /\ f.d > 0

\* C12: after a merge each sizing field holds the overlay's value when that
\* value is strictly greater than zero and the built-in default (OCPUs 1, memory
\* 4, boot volume 255) otherwise, whatever the field held before.
C12_SizingIsOverlayOrDefault ==
    op.name = "MergeExtraSpecs"
    => LET r == ret.value[1]
           overlay == op.arg
       IN  /\ r.Ocpus = IF Positive(overlay.Ocpus) THEN overlay.Ocpus ELSE Float32(1, 1)
           /\ r.MemoryInGBs = IF Positive(overlay.MemoryInGBs) THEN overlay.MemoryInGBs
                              ELSE Float32(4, 1)
           /\ r.BootVolumeSize = IF overlay.BootVolumeSize > 0 THEN overlay.BootVolumeSize
                                 ELSE 255

C12_Witness ==
    /\ op.name = "MergeExtraSpecs"
    /\ before.Ocpus = Float32(3, 1)
    /\ before.BootVolumeSize = 128
    /\ op.arg.Ocpus = Float32(2, 1)
    /\ op.arg.MemoryInGBs = Float32(1, 2)
    /\ op.arg.BootVolumeSize = 0
    /\ ret.value[1].Ocpus = Float32(2, 1)
    /\ ret.value[1].MemoryInGBs = Float32(1, 2)
    /\ ret.value[1].BootVolumeSize = 255

\* C13: through any sequence of merges a toggle (DisableUpdates,
\* EnableBootDebug) that is true stays true: an overlay whose toggle is false
\* never clears it, and an overlay whose toggle is true sets it.
C13_ToggleMergeMonotonic ==
    op.name = "MergeExtraSpecs"
    => /\ before.DisableUpdates => ret.value[1].DisableUpdates
       /\ before.EnableBootDebug => ret.value[1].EnableBootDebug
       /\ op.arg.DisableUpdates => ret.value[1].DisableUpdates
       /\ op.arg.EnableBootDebug => ret.value[1].EnableBootDebug
       /\ ret.value[1].DisableUpdates = (before.DisableUpdates \/ op.arg.DisableUpdates)
       /\ ret.value[1].EnableBootDebug = (before.EnableBootDebug \/ op.arg.EnableBootDebug)

C13_Witness ==
    /\ op.name = "MergeExtraSpecs"
    /\ Len(op.prev) = 1
    /\ op.prev[1].EnableBootDebug
    /\ ~op.prev[1].DisableUpdates
    /\ ~op.arg.EnableBootDebug
    /\ before.EnableBootDebug
    /\ ~before.DisableUpdates
    /\ ret.value[1].EnableBootDebug
    /\ ~ret.value[1].DisableUpdates

\* C14: a merge with the overlay of the merge just before it leaves every
\* field of the RunnerSpec as that first merge left it.
C14_MergeIdempotent ==
    (op.name = "MergeExtraSpecs" /\ op.prev = <<op.arg>>)
    => ret.value[1] = before

C14_Witness ==
    /\ op.name = "MergeExtraSpecs"
    /\ op.prev = <<op.arg>>
    /\ op.arg.Ocpus = Float32(5, 2)
    /\ op.arg.SSHPublicKeys = <<K1, K2>>
    /\ op.arg.DisableUpdates
    /\ ret.value[1] = before
    /\ before.SSHPublicKeys = <<K1, K2>>

\* C15: a merge replaces the SSH public key list by the overlay's list when the
\* overlay's list is not empty, and leaves the list as it was when the
\* overlay's list is empty or absent.
C15_KeysReplacedOnlyByNonEmpty ==
    op.name = "MergeExtraSpecs"
    => ret.value[1].SSHPublicKeys =
           IF op.arg.SSHPublicKeys # <<>> THEN op.arg.SSHPublicKeys
           ELSE before.SSHPublicKeys

C15_Witness ==
    /\ op.name = "MergeExtraSpecs"
    /\ before.SSHPublicKeys = <<K9>>
    /\ op.arg.SSHPublicKeys = <<>>
    /\ ret.value[1].SSHPublicKeys = <<K9>>

\* the error's text contains this message
Mentions(err, msg) == \E i \in 1..Len(err) : err[i] = msg

\* C16: an extra-specs blob without bytes validates and parses to the
\* zero-valued overlay, as the empty JSON object does; it is not an error.
C16_EmptyBlobGivesZeroOverlay ==
    (/\ op.name = "newExtraSpecsFromBootstrapData"
     /\ op.arg.ExtraSpecs \in {EmptyBlob, DocEmptyObject})
    => (ret.outcome = "ok" /\ ret.err = NoError /\ ret.value = <<ZeroExtraSpecs>>)

\* the keys the extra-specs schema declares
DeclaredKeys ==
    {"ocpus", "memory_in_gbs", "boot_volume_size", "ssh_public_keys", "disable_updates",
     "enable_boot_debug", "extra_packages", "runner_install_template",
     "pre_install_scripts", "extra_context"}

UndeclaredKeys(blob) == DOMAIN blob.members \ DeclaredKeys

\* C17: a JSON object with a top-level key outside the declared set is
\* rejected with an error that names each such key as an additional property
\* that is not allowed, whatever its other members; no overlay is returned.
C17_UnknownKeyRejected ==
    (/\ op.name = "newExtraSpecsFromBootstrapData"
     /\ op.arg.ExtraSpecs.wellFormed
     /\ UndeclaredKeys(op.arg.ExtraSpecs) # {})
    => /\ ret.outcome = "error"
       /\ ret.value = <<>>
       /\ Mentions(ret.err, "failed to validate extra specs")
       /\ \A k \in UndeclaredKeys(op.arg.ExtraSpecs) :
            Mentions(ret.err, "Additional property " \o k \o " is not allowed")

C17_Witness ==
    /\ op.name = "newExtraSpecsFromBootstrapData"
    /\ DOMAIN op.arg.ExtraSpecs.members = {"ocpus", "ssh_public_keys", "extra"}
    /\ op.arg.ExtraSpecs.members["ocpus"].type = "integer"
    /\ op.arg.ExtraSpecs.members["ssh_public_keys"].type = "string"
    /\ ret.outcome = "error"
    /\ Mentions(ret.err, "Additional property extra is not allowed")

\* the declared members of the blob whose value is not of the declared type
MistypedKeys(blob) ==
    {k \in DOMAIN blob.members \cap DeclaredKeys :
        ~TypeMatches(blob.members[k].type, SchemaProperties[k])}

\* C18: a JSON object in which a declared key carries a value of another JSON
\* type than the declared one is rejected with an error that names the field,
\* the expected type and the given type; no overlay is returned.
C18_WrongTypeRejected ==
    (/\ op.name = "newExtraSpecsFromBootstrapData"
     /\ op.arg.ExtraSpecs.wellFormed
     /\ MistypedKeys(op.arg.ExtraSpecs) # {})
    => /\ ret.outcome = "error"
       /\ ret.value = <<>>
       /\ Mentions(ret.err, "failed to validate extra specs")
       /\ \A k \in MistypedKeys(op.arg.ExtraSpecs) :
            Mentions(ret.err, k \o ": Invalid type. Expected: " \o SchemaProperties[k]
                              \o ", given: " \o op.arg.ExtraSpecs.members[k].type)

C18_Witness ==
    /\ op.name = "newExtraSpecsFromBootstrapData"
    /\ DOMAIN op.arg.ExtraSpecs.members = {"boot_volume_size", "runner_install_template"}
    /\ ret.outcome = "error"
    /\ ret.value = <<>>
    /\ Mentions(ret.err, "boot_volume_size: Invalid type. Expected: integer, given: string")
    /\ Mentions(ret.err, "runner_install_template: Invalid type. Expected: string, given: integer")

\* the blob has bytes and is cut short, or breaks the schema
InvalidExtraSpecs(blob) ==
    /\ ~blob.empty
    /\ \/ ~blob.wellFormed
       \/ UndeclaredKeys(blob) # {}
       \/ MistypedKeys(blob) # {}

\* what the builder gives for the request of the operation
Built == GetRunnerSpecFromBootstrapParams(Cfg, op.arg.bootstrap, ControllerID, op.arg.render)

\* C19: when the extra specs are malformed JSON or break the schema, the
\* builder gives an error and no RunnerSpec, and CreateInstance returns an error
\* without issuing a launch call.
C19_InvalidExtraSpecsStopCreate ==
    (op.name = "CreateInstance" /\ InvalidExtraSpecs(op.arg.bootstrap.ExtraSpecs))
    => /\ Built.err # NoError
       /\ Built.spec = <<>>
       /\ ret.outcome = "error"
       /\ ret.err # NoError
       /\ ret.value = <<>>
       /\ calls = <<>>
       /\ cloud = before

C19_Witness ==
    /\ op.name = "CreateInstance"
    /\ op.arg.bootstrap.ExtraSpecs = DocUnknownKey
    /\ ~op.arg.render.failed
    /\ op.arg.render.bytes # <<>>
    /\ ret.outcome = "error"
    /\ Mentions(ret.err, "error loading extra specs")
    /\ calls = <<>>

\* the request's tools resolve and its extra specs are valid
BuildableBut(arg) ==
    /\ \E i \in 1..Len(arg.bootstrap.Tools) :
        /\ arg.bootstrap.Tools[i].OS = arg.bootstrap.OSType
        /\ arg.bootstrap.Tools[i].Architecture = arg.bootstrap.OSArch
    /\ arg.bootstrap.ExtraSpecs \in {DocEmptyObject, DocSizing}

\* C20: for a bootstrap request whose OS type is neither Linux nor Windows,
\* with tools that resolve and valid extra specs, the builder fails with an
\* unsupported-OS-type error and gives no RunnerSpec, and CreateInstance issues
\* no launch call.
C20_UnsupportedOSStopsCreate ==
    (/\ op.name = "CreateInstance"
     /\ op.arg.bootstrap.OSType \notin {Linux, Windows}
     /\ BuildableBut(op.arg))
    => /\ Mentions(Built.err, "unsupported OS type for cloud config")
       /\ Built.spec = <<>>
       /\ ret.outcome = "error"
       /\ Mentions(ret.err, "unsupported OS type for cloud config")
       /\ ret.value = <<>>
       /\ calls = <<>>
       /\ cloud = before

C20_Witness ==
    /\ op.name = "CreateInstance"
    /\ op.arg.bootstrap.OSType = <<"b","s","d">>
    /\ BuildableBut(op.arg)
    /\ ~op.arg.render.failed
    /\ op.arg.render.bytes # <<>>
    /\ ret.outcome = "error"
    /\ calls = <<>>

\* a RunnerSpec for the request of the operation whose payload field was set before
HeldSpec ==
    [RunnerSpecWith(<<FloatZero, FloatZero, 0>>, <<>>, FALSE, FALSE)
        EXCEPT !.UserData = <<"Q","Q","=","=">>, !.BootstrapParams = op.arg.bootstrap]

\* C21: when the renderer gives zero bytes SetUserData returns an error and
\* leaves UserData as it was, the build fails and nothing is launched; a
\* RunnerSpec that a build returns has a payload that is not empty and is the
\* base64 text of the rendered bytes.
C21_EmptyPayloadFailsBuild ==
    op.name = "CreateInstance"
    => /\ (/\ BuildableBut(op.arg)
           /\ op.arg.bootstrap.OSType \in {Linux, Windows}
           /\ ~op.arg.render.failed
           /\ op.arg.render.bytes = <<>>)
          => /\ SetUserData(HeldSpec, op.arg.render).err # NoError
             /\ SetUserData(HeldSpec, op.arg.render).r.UserData = HeldSpec.UserData
             /\ Mentions(Built.err, "failed to generate custom data")
             /\ Built.spec = <<>>
             /\ ret.outcome = "error"
             /\ calls = <<>>
       /\ Built.err = NoError
          => /\ Len(Built.spec) = 1
             /\ Built.spec[1].UserData # EmptyString
             /\ IsBase64(Built.spec[1].UserData)
             /\ B64Bytes(Built.spec[1].UserData) = op.arg.render.bytes
             /\ \A i \in 1..Len(calls) :
                  calls[i].api = "launch"
                  => calls[i].request.Metadata.user_data = Built.spec[1].UserData

C21_Witness ==
    /\ op.name = "CreateInstance"
    /\ ValidBootstrap([op.arg EXCEPT !.render = [failed |-> FALSE, bytes |-> <<0>>]])
    /\ ~op.arg.render.failed
    /\ op.arg.render.bytes = <<>>
    /\ ret.outcome = "error"
    /\ Mentions(ret.err, "failed to generate custom data")

\* the service refused this call of the operation: for reasons of its own, or
\* because the compartment holds no instance with the call's identifier, or
\* because the compartment is full
Refused(c) ==
    \/ c.api \in op.fails
    \/ /\ c.api \in {"get", "terminate", "action"}
       /\ \A k \in 1..Len(before) : before[k].Id # c.id
    \/ c.api = "launch" /\ Len(before) >= MaxInstances

LifecycleOperations ==
    {"CreateInstance", "GetInstance", "DeleteInstance", "ListInstances", "Start", "Stop"}

\* C22: when a compute-API call of a lifecycle operation fails, the operation
\* returns an error that carries the failure, the failed call is the last call it
\* issues, and no call is issued twice; a failed call never ends in success.
C22_UpstreamFailurePropagates ==
    op.name \in LifecycleOperations
    => /\ \A i \in 1..Len(calls) :
            Refused(calls[i])
            => /\ i = Len(calls)
               /\ ret.outcome = "error"
               /\ ret.err # NoError
               /\ Mentions(ret.err, UpstreamError)
               /\ ret.value = <<>>
               /\ cloud = before
       /\ \A i, j \in 1..Len(calls) : i # j => calls[i] # calls[j]

C22_Witness ==
    /\ op.name = "GetInstance"
    /\ ~IsOcid(op.arg)
    /\ Len(calls) = 2
    /\ calls[2].api = "get"
    /\ op.fails = {"get"}
    /\ \E k \in 1..Len(before) : before[k].Id = calls[2].id
    /\ ret.outcome = "error"
    /\ ret.err = <<"error getting instance", "error getting instance", UpstreamError>>

\* C23: Start issues exactly one instance-action call with action Start and
\* Stop exactly one with action Stop, for the identifier given and whatever the
\* force flag; each returns success exactly when the service accepts that call,
\* and neither issues another call.
C23_StartStopIssueOneAction ==
    /\ op.name = "Start"
       => /\ calls = <<[api |-> "action", id |-> op.arg, action |-> "START"]>>
          /\ ret.outcome = IF Refused(calls[1]) THEN "error" ELSE "ok"
          /\ (ret.outcome = "ok") = (ret.err = NoError)
    /\ op.name = "Stop"
       => /\ calls = <<[api |-> "action", id |-> op.arg.instance, action |-> "STOP"]>>
          /\ ret.outcome = IF Refused(calls[1]) THEN "error" ELSE "ok"
          /\ (ret.outcome = "ok") = (ret.err = NoError)

C23_Witness ==
    /\ op.name = "Stop"
    /\ op.arg.force
    /\ ret.outcome = "ok"
    /\ \E k \in 1..Len(before) :
        /\ before[k].Id = op.arg.instance
        /\ before[k].LifecycleState = "RUNNING"
        /\ cloud[k].LifecycleState = "STOPPING"

\* the operations that act on one existing instance, and the handle each was given
SingleInstanceOperations == {"GetInstance", "DeleteInstance", "Start", "Stop"}

GivenHandle == IF op.name = "Stop" THEN op.arg.instance ELSE op.arg

\* C25: Get, Delete, Start and Stop, given a display name, first list to resolve
\* it and then call the compute API with the resolved instance ID, never with
\* the display name itself.
C25_NameHandleIsResolved ==
    (/\ op.name \in SingleInstanceOperations
     /\ ~IsOcid(GivenHandle)
     /\ calls # <<>>)
    => /\ calls[1].api = "list"
       /\ \A i \in 1..Len(calls) :
            calls[i].api \in {"get", "terminate", "action"}
            => /\ calls[i].id # GivenHandle
               /\ \E k \in MatchingIndexes(before, [Name |-> GivenHandle]) :
                    calls[i].id = before[k].Id

\* the fields of the configuration that are empty
EmptyFields(c) == {f \in ConfigFields : c[f] = EmptyString}

\* C24 as stated: a provider is constructed only from a configuration whose
\* every field is non-empty; a configuration with any empty field is refused
\* with an error.
C24_EveryFieldRequired ==
    op.name = "NewOciProvider"
    => /\ ret.outcome = "ok" => EmptyFields(op.arg.config) = {}
       /\ EmptyFields(op.arg.config) # {} => (ret.outcome = "error" /\ ret.value = <<>>)

\* C24 amended: a provider is constructed only from a configuration whose every
\* field other than the private key password is non-empty, and it holds that
\* configuration; a configuration with any of those nine fields empty is
\* refused with a validation error that says which is required.
C24_EveryFieldButPasswordRequired ==
    op.name = "NewOciProvider"
    => /\ ret.outcome = "ok"
          => /\ op.arg.decodes
             /\ EmptyFields(op.arg.config) \subseteq {"PrivateKeyPassword"}
             /\ ret.value[1].cfg = op.arg.config
       /\ (op.arg.decodes /\ EmptyFields(op.arg.config) \ {"PrivateKeyPassword"} # {})
          => /\ ret.outcome = "error"
             /\ ret.value = <<>>
             /\ Mentions(ret.err, "error validating config")
             /\ Len(ret.err) = 3
       /\ (op.arg.decodes /\ EmptyFields(op.arg.config) \subseteq {"PrivateKeyPassword"})
          => ~Mentions(ret.err, "error validating config")

C24_Witness ==
    /\ op.name = "NewOciProvider"
    /\ EmptyFields(op.arg.config) = {"PrivateKeyPassword"}
    /\ ret.outcome = "ok"
    /\ ret.value[1].cfg.PrivateKeyPassword = EmptyString

\* the caller is between acquiring the guard and releasing it
Inside(g) == calls[g].pc \in {"compose", "check", "encode", "unlock"}

\* the caller is rendering, checking or encoding
Working(g) == calls[g].pc \in {"compose", "check", "encode"}

AllReturned == \A g \in Callers : calls[g].pc = "returned"

\* C26: the guard is held for the whole of render and encode, at most one of
\* the concurrent callers is inside them at any time, the guard is free once a
\* caller has returned whether with a render error, an empty payload error or
\* success, and every caller eventually returns.
C26_GuardHeldAndReleased ==
    /\ [](/\ \A g \in Callers : Working(g) => ret.value[1].mux = g
          /\ \A g, h \in Callers : (Inside(g) /\ Inside(h)) => g = h
          /\ \A g \in Callers : calls[g].pc \in {"start", "returned"} => ret.value[1].mux # g
          /\ AllReturned => ret.value[1].mux = 0)
    /\ <>AllReturned

C26_Witness ==
    /\ AllReturned
    /\ ret.value[1].mux = 0
    /\ calls[1].err = <<"failed to generate custom data">>
    /\ calls[2].err = NoError
    /\ ret.value[1].UserData = EncodeToString(calls[2].udata)
    /\ ret.value[1].UserData # before.UserData

\* no candidate tool matches the OS and architecture of the request
NoMatchingTool(b) == \A i \in 1..Len(b.Tools) :
    ~(b.Tools[i].OS = b.OSType /\ b.Tools[i].Architecture = b.OSArch)

\* validating and parsing the extra specs of the request gives an error
ExtraSpecsRejected(b) == newExtraSpecsFromBootstrapData(b).err # NoError

\* the payload step cannot succeed: the OS has no cloud config, the renderer
\* fails, or it renders nothing
PayloadFails(b, render) ==
    \/ b.OSType \notin {Linux, Windows}
    \/ render.failed
    \/ Len(render.bytes) = 0

\* C27: the build resolves the tool, then validates and merges the extra
\* specs, then renders the payload: the error of a create is the tool error
\* whenever no tool matches, whatever the extra specs and the renderer; it is the
\* extra-specs error whenever a tool matches and the extra specs are invalid,
\* whatever the renderer; and it is the payload error only when both earlier
\* steps passed.
C27_EarliestFailingStepReported ==
    op.name = "CreateInstance" =>
        LET b == op.arg.bootstrap
            render == op.arg.render
        IN  /\ NoMatchingTool(b)
                => ret.err = <<"error getting runner spec", "failed to get tools">>
            /\ (~NoMatchingTool(b) /\ ExtraSpecsRejected(b))
                => /\ Len(ret.err) > 2
                   /\ SubSeq(ret.err, 1, 2)
                        = <<"error getting runner spec", "error loading extra specs">>
                   /\ ~Mentions(ret.err, "error setting extra specs")
            /\ (~NoMatchingTool(b) /\ ~ExtraSpecsRejected(b) /\ PayloadFails(b, render))
                => /\ Len(ret.err) > 2
                   /\ SubSeq(ret.err, 1, 2)
                        = <<"error getting runner spec", "error setting extra specs">>
            /\ (NoMatchingTool(b) \/ ExtraSpecsRejected(b) \/ PayloadFails(b, render))
                => (ret.outcome = "error" /\ calls = <<>>)

C27_Witness ==
    /\ op.name = "CreateInstance"
    /\ NoMatchingTool(op.arg.bootstrap)
    /\ ExtraSpecsRejected(op.arg.bootstrap)
    /\ PayloadFails(op.arg.bootstrap, op.arg.render)
    /\ ret.err = <<"error getting runner spec", "failed to get tools">>

\* the overlay parsed from the extra specs of the request of the operation
Overlay == newExtraSpecsFromBootstrapData(op.arg.bootstrap).spec[1]

\* the create built a RunnerSpec
BuildSucceeded ==
    /\ op.name = "CreateInstance"
    /\ Built.err = NoError

PassThroughFields ==
    {"ExtraPackages", "RunnerInstallTemplate", "PreInstallScripts", "ExtraContext"}

\* C28 as stated: the RunnerSpec that a build returns holds each of the
\* pass-through fields of the overlay (extra packages, install template
\* override, pre-install scripts, extra template context) with the overlay's
\* value.
C28_PassThroughFieldsCopied ==
    BuildSucceeded =>
        \A f \in PassThroughFields :
            /\ f \in DOMAIN Built.spec[1]
            /\ Built.spec[1][f] = Overlay[f]

\* C28: the RunnerSpec that a build returns holds the overlay's extra packages
\* as parsed, empty when the extra specs name none; the install template
\* override, the pre-install scripts and the extra template context are no
\* fields of the RunnerSpec, which carries them only inside the unparsed extra
\* specs of its bootstrap request.
C28_OnlyExtraPackagesCopied ==
    BuildSucceeded =>
        /\ Built.spec[1].ExtraPackages = Overlay.ExtraPackages
        /\ ("extra_packages" \notin DOMAIN op.arg.bootstrap.ExtraSpecs.members)
                => Built.spec[1].ExtraPackages = <<>>
        /\ ("extra_packages" \in DOMAIN op.arg.bootstrap.ExtraSpecs.members)
                => Built.spec[1].ExtraPackages
                     = op.arg.bootstrap.ExtraSpecs.members["extra_packages"].v
        /\ DOMAIN Built.spec[1] \cap (PassThroughFields \ {"ExtraPackages"}) = {}
        /\ Built.spec[1].BootstrapParams.ExtraSpecs = op.arg.bootstrap.ExtraSpecs

C28_Witness ==
    /\ BuildSucceeded
    /\ ret.outcome = "ok"
    /\ Built.spec[1].ExtraPackages = <<<<"g","i","t">>, <<"j","q">>>>
    /\ Overlay.RunnerInstallTemplate = <<35, 33>>
    /\ Overlay.PreInstallScripts = [setup |-> <<35, 33, 10>>]
    /\ Overlay.ExtraContext = [key |-> <<"v">>]

\* the result of the list holds a normalized instance for this record
ListedIn(result, inst) ==
    \E j \in 1..Len(result) :
        /\ result[j].ProviderID = inst.Id
        /\ result[j].Name = TagGet(inst.FreeformTags, "Name")

\* a create that succeeded left, as the newest instance of the compartment, one
\* with the identifier it returned and the name and pool of its request
CreatedIsTagged ==
    (op.name = "CreateInstance" /\ ret.outcome = "ok")
    => /\ Len(cloud) = Len(before) + 1
       /\ cloud[Len(cloud)].Id = ret.value[1].ProviderID
       /\ TagGet(cloud[Len(cloud)].FreeformTags, "Name") = op.arg.bootstrap.Name
       /\ TagGet(cloud[Len(cloud)].FreeformTags, "GARM_POOL_ID") = op.arg.bootstrap.PoolID
       /\ ret.value[1].Name = op.arg.bootstrap.Name

\* a list that succeeded holds exactly the instances of its pool that are not Terminated
ListedIffInPoolAndLive ==
    (op.name = "ListInstances" /\ ret.outcome = "ok")
    => /\ \A i \in 1..Len(before) :
            ListedIn(ret.value, before[i])
            <=> /\ TagGet(before[i].FreeformTags, "GARM_POOL_ID") = op.arg
                /\ before[i].LifecycleState # "TERMINATED"
       /\ \A j \in 1..Len(ret.value) :
            \E i \in 1..Len(before) : before[i].Id = ret.value[j].ProviderID

\* an instance keeps its identifier and its tags, and Terminated is final
InstanceKeepsIdentity ==
    /\ Len(cloud') >= Len(cloud)
    /\ \A i \in 1..Len(cloud) :
        /\ cloud'[i].Id = cloud[i].Id
        /\ cloud'[i].FreeformTags = cloud[i].FreeformTags
        /\ cloud[i].LifecycleState = "TERMINATED" => cloud'[i].LifecycleState = "TERMINATED"

\* C29: the instance that a successful CreateInstance for name n and pool p
\* launches carries n and p in its tags under the identifier returned and keeps
\* them; every successful ListInstances(q) holds a normalized instance with the
\* Name and identifier of each instance tagged with pool q that is not
\* Terminated, and of no other: so the created instance is in every list of p
\* while it is not Terminated, in no list of another pool, and in no list once
\* it is Terminated.
C29_CreatedInstanceListedInItsPool ==
    /\ [](CreatedIsTagged /\ ListedIffInPoolAndLive)
    /\ [][InstanceKeepsIdentity]_vars

C29_Witness ==
    /\ op.name = "ListInstances"
    /\ op.arg = P1
    /\ ret.outcome = "ok"
    /\ Len(before) = 2
    /\ TagGet(before[1].FreeformTags, "GARM_POOL_ID") = P1
    /\ TagGet(before[1].FreeformTags, "Name") = R1
    /\ before[1].LifecycleState = "STOPPED"
    /\ TagGet(before[2].FreeformTags, "GARM_POOL_ID") = P1
    /\ before[2].LifecycleState = "TERMINATED"
    /\ Len(ret.value) = 1
    /\ ret.value[1].ProviderID = before[1].Id
    /\ ret.value[1].Name = R1

\* the calls of the operation that act on one instance: point-get and terminate
TargetedCalls ==
    {i \in 1..Len(calls) : calls[i].api \in {"get", "terminate"}}

\* C30: when GetInstance or DeleteInstance is given a display name, each
\* point-get or terminate call it issues carries the identifier of an instance
\* of the listing that is not Terminated and whose Name tag is the handle; none
\* is issued for an instance with another Name tag or a Terminated one, and
\* none without a list call before it.
C30_NameHandleTargetsLiveNamedInstance ==
    (op.name \in {"GetInstance", "DeleteInstance"} /\ ~IsOcid(op.arg))
    => \A c \in TargetedCalls :
        /\ c > 1
        /\ calls[1].api = "list"
        /\ \E i \in 1..Len(before) :
            /\ before[i].Id = calls[c].id
            /\ before[i].LifecycleState # "TERMINATED"
            /\ TagGet(before[i].FreeformTags, "Name") = op.arg
        /\ \A i \in 1..Len(before) :
            (\/ before[i].LifecycleState = "TERMINATED"
             \/ TagGet(before[i].FreeformTags, "Name") # op.arg)
            => before[i].Id # calls[c].id

C30_Witness ==
    /\ op.name = "DeleteInstance"
    /\ op.arg = R1
    /\ Len(before) = 2
    /\ before[1].LifecycleState = "TERMINATED"
    /\ TagGet(before[1].FreeformTags, "Name") = R1
    /\ before[2].LifecycleState = "RUNNING"
    /\ TagGet(before[2].FreeformTags, "Name") = R1
    /\ calls = <<ApiCall("list", EmptyString), ApiCall("terminate", before[2].Id)>>
    /\ ret.outcome = "ok"
    /\ cloud[2].LifecycleState = "TERMINATING"

====
